---- MODULE Spec2Model ----
(***************************************************************************)
(* Model of the research-repository backend's AI tools (src/routes/auth.js *)
(* second module, lines 480-1640): the Hugging Face inference client       *)
(* callHF, the request handlers that call it, the heuristic TL;DR, the     *)
(* methods checklist, the recommendation strategies, the reference         *)
(* scanner and the author/citation formatter.                              *)
(*                                                                         *)
(* Each component has its own specification (SpecHF, SpecReq, SpecTldr,    *)
(* SpecMethods, SpecCite, SpecRecs, SpecRefs, SpecTools, SpecCitations);   *)
(* the account routes of the first module (lines 78-380) are modelled at   *)
(* the end (SpecAcct, SpecAcctRace).  The variables of the other           *)
(* components stay at their idle values.  Strings are TLA+ strings, read   *)
(* with Len, SubSeq and \o, so text functions are modelled character by    *)
(* character.                                                              *)
(***************************************************************************)
EXTENDS Integers, Sequences, FiniteSets, TLC

VARIABLES
    \* ---- callHF (one call) ----
    hfPc,        \* "idle" | "fetch" | "body" | "sleep" | "done" | "thrown"
    tries,       \* the tries argument
    attempt,     \* loop counter
    delay,       \* backoff delay, in thousandths of a millisecond
    posts,       \* POSTs sent by this call
    sleeps,      \* the backoff sleeps made, in order (thousandths of a ms)
    timerArmed,  \* the abort timer `to` is pending
    elapsed,     \* clock ticks since the current attempt's POST
    outcomes,    \* how each attempt ended, in order: [kind, status, body]
    events,      \* the POSTs and backoff sleeps of the call, in order
    hfResult,    \* what the call resolved or rejected with
    \* ---- one HTTP request to the AI routes ----
    req,
    \* ---- a pure function applied to an input ----
    fn

hfVars == <<hfPc, tries, attempt, delay, posts, sleeps, timerArmed, elapsed,
            outcomes, events, hfResult>>
vars == <<hfPc, tries, attempt, delay, posts, sleeps, timerArmed, elapsed,
          outcomes, events, hfResult, req, fn>>

(***************************************************************************)
(* Bounds of the model.                                                    *)
(***************************************************************************)
MaxPieces == 3       \* pieces an input text of heuristicTldr is built from
MaxMethodsPieces == 3  \* pieces an abstract of methods mode is built from
MaxAuthorPieces == 3   \* pieces an author string is built from
MaxRecPieces == 3      \* pieces a document text of recommendations mode is built from
MaxRefPieces == 3      \* pieces a document text of refscan mode is built from
MaxRuns == 3           \* citations requests served in a row
MaxTries == 3        \* tries ranges over 0..MaxTries
TimeoutTicks == 2    \* timeoutMs, in clock ticks
ExtraTicks == 2      \* how far the clock may run past timeoutMs

(***************************************************************************)
(* String helpers (JavaScript string primitives).                          *)
(***************************************************************************)
Ch(s, i) == SubSeq(s, i, i)

IsWs(c) == c \in {" ", "\t", "\n", "\r"}

\* s.substring(0, n)
Take(s, n) == SubSeq(s, 1, IF n < Len(s) THEN n ELSE Len(s))

RECURSIVE TrimStart(_)
TrimStart(s) ==
    IF Len(s) > 0 /\ IsWs(Ch(s, 1)) THEN TrimStart(SubSeq(s, 2, Len(s))) ELSE s

RECURSIVE TrimEnd(_)
TrimEnd(s) ==
    IF Len(s) > 0 /\ IsWs(Ch(s, Len(s))) THEN TrimEnd(SubSeq(s, 1, Len(s) - 1)) ELSE s

\* String.prototype.trim
Trim(s) == TrimEnd(TrimStart(s))

LowerAlpha == "abcdefghijklmnopqrstuvwxyz"
UpperAlpha == "ABCDEFGHIJKLMNOPQRSTUVWXYZ"
Digits == "0123456789"

CharsOf(s) == {Ch(s, i) : i \in 1..Len(s)}
UpperSet == CharsOf(UpperAlpha)
LowerSet == CharsOf(LowerAlpha)

LowerMap == [c \in UpperSet |->
                Ch(LowerAlpha, CHOOSE i \in 1..26 : Ch(UpperAlpha, i) = c)]
UpperMap == [c \in LowerSet |->
                Ch(UpperAlpha, CHOOSE i \in 1..26 : Ch(LowerAlpha, i) = c)]

LowerCh(c) == IF c \in UpperSet THEN LowerMap[c] ELSE c
UpperCh(c) == IF c \in LowerSet THEN UpperMap[c] ELSE c

\* The concatenation of F(s, i) for i = lo..hi, by halving (strings).
RECURSIVE CatStr(_, _, _, _)
CatStr(F(_, _), s, lo, hi) ==
    IF lo > hi THEN ""
    ELSE IF lo = hi THEN F(s, lo)
    ELSE LET mid == (lo + hi) \div 2
         IN  CatStr(F, s, lo, mid) \o CatStr(F, s, mid + 1, hi)

\* String.prototype.toLowerCase / toUpperCase
ToLower(s) == CatStr(LAMBDA x, i : LowerCh(Ch(x, i)), s, 1, Len(s))
ToUpper(s) == CatStr(LAMBDA x, i : UpperCh(Ch(x, i)), s, 1, Len(s))

\* The regular-expression class \w
WordChars == UpperSet \cup LowerSet \cup CharsOf(Digits) \cup {"_"}
IsWordCh(c) == c \in WordChars

\* s.replace(/\s+/g, " "): the first character of a whitespace run becomes a
\* space, the others go.
CollapseWs(s) ==
    CatStr(LAMBDA x, i : IF ~IsWs(Ch(x, i)) THEN Ch(x, i)
                         ELSE IF i > 1 /\ IsWs(Ch(x, i - 1)) THEN "" ELSE " ",
           s, 1, Len(s))

\* Two lists of pieces put together: the last piece of the left one goes on
\* in the first piece of the right one.
Glue(L, R) ==
    SubSeq(L, 1, Len(L) - 1) \o <<L[Len(L)] \o R[1]>> \o SubSeq(R, 2, Len(R))

\* s.split(re), by halving: Cls(s, i) tells what character i is, "cut" (the
\* first character of a match of re: a new piece starts), "drop" (a further
\* character of a match) or "keep" (a character of a piece).
RECURSIVE Pieces(_, _, _, _)
Pieces(Cls(_, _), s, lo, hi) ==
    IF lo > hi THEN <<"">>
    ELSE IF lo = hi
         THEN CASE Cls(s, lo) = "cut" -> <<"", "">>
                [] Cls(s, lo) = "drop" -> <<"">>
                [] OTHER -> <<Ch(s, lo)>>
    ELSE LET mid == (lo + hi) \div 2
         IN  Glue(Pieces(Cls, s, lo, mid), Pieces(Cls, s, mid + 1, hi))

\* s.split(/\s+/)
SplitWs(s) ==
    Pieces(LAMBDA x, i : IF ~IsWs(Ch(x, i)) THEN "keep"
                         ELSE IF i > 1 /\ IsWs(Ch(x, i - 1)) THEN "drop" ELSE "cut",
           s, 1, Len(s))

\* arr.join(sep)
RECURSIVE JoinRange(_, _, _, _)
JoinRange(arr, sep, lo, hi) ==
    IF lo > hi THEN ""
    ELSE IF lo = hi THEN arr[lo]
    ELSE LET mid == (lo + hi) \div 2
         IN  JoinRange(arr, sep, lo, mid) \o sep \o JoinRange(arr, sep, mid + 1, hi)

Join(arr, sep) == JoinRange(arr, sep, 1, Len(arr))

\* arr.filter(Keep), over the indexes lo..hi
RECURSIVE FilterRange(_, _, _, _)
FilterRange(arr, Keep(_), lo, hi) ==
    IF lo > hi THEN <<>>
    ELSE IF lo = hi THEN (IF Keep(arr[lo]) THEN <<arr[lo]>> ELSE <<>>)
    ELSE LET mid == (lo + hi) \div 2
         IN  FilterRange(arr, Keep, lo, mid) \o FilterRange(arr, Keep, mid + 1, hi)

FilterSeq(arr, Keep(_)) == FilterRange(arr, Keep, 1, Len(arr))

\* The maximal runs of \w characters and of other characters of s[lo..hi],
\* in order.
RECURSIVE RunsRange(_, _, _)
RunsRange(s, lo, hi) ==
    IF lo > hi THEN <<>>
    ELSE IF lo = hi THEN <<Ch(s, lo)>>
    ELSE LET mid == (lo + hi) \div 2
             L == RunsRange(s, lo, mid)
             R == RunsRange(s, mid + 1, hi)
         IN  IF IsWordCh(Ch(s, mid)) = IsWordCh(Ch(s, mid + 1)) THEN Glue(L, R)
             ELSE L \o R

Runs(s) == RunsRange(s, 1, Len(s))

AllWs(s) == \A i \in 1..Len(s) : IsWs(Ch(s, i))

\* The regular-expression classes \s and \d.
WsSet == {" ", "\t", "\n", "\r"}

Least(S) == CHOOSE x \in S : \A y \in S : x <= y
DigitSet == CharsOf(Digits)

\* The first position from i on whose character is not in chars.
SkipWhile(s, i, chars) ==
    CHOOSE j \in i..(Len(s) + 1) :
        /\ j = Len(s) + 1 \/ Ch(s, j) \notin chars
        /\ \A k \in i..(j - 1) : Ch(s, k) \in chars

\* The first position from i on whose character is in chars.
FirstOf(s, i, chars) ==
    CHOOSE j \in i..(Len(s) + 1) :
        /\ j = Len(s) + 1 \/ Ch(s, j) \in chars
        /\ \A k \in i..(j - 1) : Ch(s, k) \notin chars

(***************************************************************************)
(* JSON values as the provider may send them, and the JavaScript reads     *)
(* callHF makes on them.  A scalar is [t, s]; a body is [t, f, items]      *)
(* with f the fields callHF reads and items the elements of an array.      *)
(***************************************************************************)
Undef == [t |-> "undef", s |-> ""]
JNull == [t |-> "null", s |-> ""]
JStr(x) == [t |-> "str", s |-> x]
JNum(x) == [t |-> "num", s |-> x]

Fields == {"error", "summary_text", "generated_text"}
NoFields == [k \in Fields |-> Undef]
With(k, v) == [NoFields EXCEPT ![k] = v]

Elem(t, f) == [t |-> t, f |-> f]
Body(t, f, items) == [t |-> t, f |-> f, items |-> items]

\* Bodies that parse as JSON.
JsonBodies ==
    { Body("null", NoFields, <<>>),
      Body("num", NoFields, <<>>),
      Body("str", NoFields, <<>>),
      Body("arr", NoFields, <<>>),
      Body("arr", NoFields, <<Elem("null", NoFields)>>),
      Body("arr", NoFields, <<Elem("obj", With("summary_text", JStr(" A summary. ")))>>),
      Body("arr", NoFields, <<Elem("obj", With("generated_text", JStr("Generated text.")))>>),
      Body("obj", NoFields, <<>>),
      Body("obj", With("summary_text", JStr("A summary.")), <<>>),
      Body("obj", With("generated_text", JStr("Generated text.")), <<>>),
      Body("obj", With("summary_text", JNum("5")), <<>>),
      Body("obj", With("error", JStr("Model not found")), <<>>) }

\* A well-formed result body: an array of result objects or a single result
\* object, carrying summary_text or generated_text as a string, no error.
WellFormed(b) ==
    LET o == IF b.t = "arr" /\ Len(b.items) > 0 THEN b.items[1] ELSE Elem(b.t, b.f)
    IN  /\ b.t \in {"arr", "obj"}
        /\ b.t = "arr" => Len(b.items) > 0
        /\ o.t = "obj"
        /\ o.f["error"] = Undef
        /\ \/ o.f["summary_text"].t = "str" /\ o.f["summary_text"].s # ""
           \/ o.f["generated_text"].t = "str" /\ o.f["generated_text"].s # ""

\* JavaScript truthiness of a scalar.
Truthy(v) == \/ v.t = "str" /\ v.s # ""
             \/ v.t = "num" /\ v.s # "0"

\* a || b
OrElse(a, b) == IF Truthy(a) THEN a ELSE b

\* v.k : reading a property of null or undefined throws a TypeError.
ReadThrows(v) == v.t \in {"null", "undef"}
Get(v, k) == IF v.t = "obj" THEN v.f[k] ELSE Undef

\* data[0]
Elem0(b) == IF Len(b.items) > 0 THEN b.items[1] ELSE Elem("undef", NoFields)

\* v?.k
OptGet(v, k) == IF v.t \in {"null", "undef"} THEN Undef ELSE Get(v, k)

\* Lines 527-529: the text picked out of the parsed body.
PickText(data) ==
    IF data.t = "arr"
    THEN OrElse(OrElse(OptGet(Elem0(data), "summary_text"),
                       OptGet(Elem0(data), "generated_text")), JStr(""))
    ELSE OrElse(OrElse(Get(data, "summary_text"), Get(data, "generated_text")),
                JStr(""))

Resolved(tag, val) == [tag |-> tag, val |-> val]
NoResult == Resolved("none", "")

\* Lines 523-531: what callHF does with a response that is not 503/429, once
\* the body has been read.  parsed = FALSE: res.json() rejected.
HandleBody(parsed, data) ==
    IF ~parsed THEN Resolved("error", "Invalid JSON from Hugging Face")
    ELSE IF ReadThrows(data) THEN Resolved("throw", "TypeError")
    ELSE IF Truthy(Get(data, "error")) THEN Resolved("error", Get(data, "error").s)
    ELSE LET text == OrElse(PickText(data), JStr(""))
         IN  IF text.t # "str" THEN Resolved("throw", "TypeError")
             ELSE Resolved("text", Trim(text.s))

(***************************************************************************)
(* callHF, lines 492-534.                                                  *)
(***************************************************************************)
Statuses == {200, 400, 401, 404, 429, 500, 503}

StatusText(s) ==
    CASE s = 200 -> "200" [] s = 400 -> "400" [] s = 401 -> "401"
      [] s = 404 -> "404" [] s = 429 -> "429" [] s = 500 -> "500"
      [] s = 503 -> "503"

InitialDelay == 800

\* A variant that retries only 503.
RetryOnly503(s) == s = 503

\* Line 516: the statuses that are retried.
RetryStatus(s) == s = 503 \/ s = 429

\* A variant that gives up one attempt early.
LastAttemptEarly(a, t) == a + 1 >= t

\* Lines 509, 517: attempt === tries
LastAttempt(a, t) == a = t

\* A variant that doubles the delay.
NextDelayDouble(d) == d * 2

\* Lines 511, 519: delay *= 1.6
NextDelay(d) == (d * 16) \div 10

\* Line 509
NetworkError(msg) == Resolved("error", "Network error: " \o msg)
\* Line 517
BusyError(s) == Resolved("error", "HF " \o StatusText(s) \o ": model busy/starting")

\* How one attempt ended: kind is "network" (fetch rejected), "abort" (the
\* abort timer cancelled it) or "status" (response headers arrived); body is
\* "none" (not read), "pending", "nonjson", "json" or "wellformed".
Outcome(kind, status, body) == [kind |-> kind, status |-> status, body |-> body]

HFIdle ==
    /\ hfPc = "idle" /\ tries = 0 /\ attempt = 0 /\ delay = 0 /\ posts = 0
    /\ sleeps = <<>> /\ timerArmed = FALSE /\ elapsed = 0 /\ outcomes = <<>>
    /\ events = <<>> /\ hfResult = NoResult

\* Lines 496-506: the loop test of `attempt`, then the POST with its abort timer.
EnterLoop(a, t) ==
    /\ attempt' = a
    /\ IF a <= t
       THEN /\ posts' = posts + 1
            /\ events' = Append(events, "post")
            /\ timerArmed' = TRUE
            /\ elapsed' = 0
            /\ hfPc' = "fetch"
            /\ hfResult' = hfResult
       ELSE /\ hfPc' = "done"
            /\ hfResult' = Resolved("error", "HF failed after retries.")
            /\ UNCHANGED <<posts, events, timerArmed, elapsed>>

\* Line 492-496: the call starts.
CallHF(t) ==
    /\ hfPc = "idle"
    /\ tries' = t
    /\ delay' = InitialDelay * 1000
    /\ EnterLoop(1, t)
    /\ UNCHANGED <<sleeps, outcomes, req, fn>>

\* A retryable failure of the current attempt (lines 509-512, 517-520): return
\* on the last attempt, sleep otherwise.
RetryOrFail(kind, status, failure) ==
    /\ outcomes' = Append(outcomes, Outcome(kind, status, "none"))
    /\ timerArmed' = FALSE
    /\ IF LastAttempt(attempt, tries)
       THEN /\ hfPc' = "done"
            /\ hfResult' = failure
            /\ UNCHANGED <<sleeps, events>>
       ELSE /\ hfPc' = "sleep"
            /\ sleeps' = Append(sleeps, delay)
            /\ events' = Append(events, "sleep")
            /\ UNCHANGED hfResult
    /\ UNCHANGED <<tries, attempt, delay, posts, elapsed, req, fn>>

\* Lines 507-513: fetch rejects with a network error.
FetchNetworkError ==
    /\ hfPc = "fetch"
    /\ RetryOrFail("network", 0, NetworkError("fetch failed"))

\* Line 498: the abort timer fires while fetch is pending; fetch rejects with
\* an AbortError, handled by the same catch block.
TimerFires ==
    /\ hfPc = "fetch"
    /\ timerArmed
    /\ elapsed = TimeoutTicks
    /\ RetryOrFail("abort", 0, NetworkError("The operation was aborted."))

\* Lines 514-521: fetch resolves with the response headers; the abort timer
\* is cleared before the body is read.
FetchResolves(s) ==
    /\ hfPc = "fetch"
    /\ IF RetryStatus(s)
       THEN RetryOrFail("status", s, BusyError(s))
       ELSE /\ hfPc' = "body"
            /\ timerArmed' = FALSE
            /\ outcomes' = Append(outcomes, Outcome("status", s, "pending"))
            /\ UNCHANGED <<tries, attempt, delay, posts, sleeps, elapsed,
                           events, hfResult, req, fn>>

\* Lines 523-531: res.json() settles.
BodyArrives(parsed, data) ==
    /\ hfPc = "body"
    /\ LET r == HandleBody(parsed, data)
       IN  /\ hfResult' = r
           /\ hfPc' = IF r.tag = "throw" THEN "thrown" ELSE "done"
           /\ outcomes' = [outcomes EXCEPT ![Len(outcomes)].body =
                  IF ~parsed THEN "nonjson"
                  ELSE IF WellFormed(data) THEN "wellformed" ELSE "json"]
    /\ UNCHANGED <<tries, attempt, delay, posts, sleeps, timerArmed, elapsed,
                   events, req, fn>>

\* Lines 510-512, 518-520: the backoff sleep ends; delay grows; next attempt.
SleepDone ==
    /\ hfPc = "sleep"
    /\ delay' = NextDelay(delay)
    /\ EnterLoop(attempt + 1, tries)
    /\ UNCHANGED <<tries, sleeps, outcomes, req, fn>>

\* Time passes while the provider has not answered.  An armed timer fires
\* when its time has come, so the clock does not pass it.
Tick ==
    /\ hfPc \in {"fetch", "body"}
    /\ elapsed < TimeoutTicks + ExtraTicks
    /\ ~(timerArmed /\ elapsed >= TimeoutTicks)
    /\ elapsed' = elapsed + 1
    /\ UNCHANGED <<hfPc, tries, attempt, delay, posts, sleeps, timerArmed,
                   outcomes, events, hfResult, req, fn>>

(***************************************************************************)
(* heuristicTldr, lines 628-670.                                           *)
(***************************************************************************)
MinSentenceLen == 20
MaxWords == 50
FallbackChars == 150

\* Line 638-640: the keyword groups, in priority order.  Each keyword is a
\* sequence of words; \b(...)\b matches whole words, case-insensitively, and
\* the words of a two-word keyword are separated by whitespace (\s+).
PriorityKeywords ==
    << { <<"found">>, <<"showed">>, <<"demonstrated">>, <<"concluded">>,
         <<"result">>, <<"results">>, <<"finding">>, <<"findings">>,
         <<"significant">>, <<"improved">>, <<"reduced">>, <<"increased">> },
       { <<"conclusion">>, <<"summary">>, <<"takeaway">>, <<"key", "point">>,
         <<"main", "finding">> },
       { <<"aim">>, <<"objective">>, <<"purpose">>, <<"goal">> } >>

\* Whether the runs r of a lower-cased sentence hold a keyword of the group.
RunsMatch(group, r) ==
    \E j \in 1..Len(r) :
      \/ <<r[j]>> \in group
      \/ /\ j + 2 <= Len(r)
         /\ AllWs(r[j + 1])
         /\ <<r[j], r[j + 2]>> \in group

\* keyword.test(s) for one group
KeywordTest(group, s) == RunsMatch(group, Runs(ToLower(s)))

\* Line 634: cleaned.split(/(?<=[.!?])\s+/), on a text whose whitespace runs
\* are single spaces (line 631): a space that follows ".", "!" or "?" ends
\* a sentence.
SplitSentences(cleaned) ==
    Pieces(LAMBDA x, i : IF IsWs(Ch(x, i)) /\ i > 1 /\ Ch(x, i - 1) \in {".", "!", "?"}
                         THEN "cut" ELSE "keep",
           cleaned, 1, Len(cleaned))

\* A variant that keeps sentences of MinSentenceLen characters.
LongEnoughInclusive(s) == Len(s) >= MinSentenceLen

\* Line 634: .filter(s => s.length > 20)
LongEnough(s) == Len(s) > MinSentenceLen

\* Line 634
Sentences(cleaned) ==
    LET parts == SplitSentences(cleaned)
        trimmed == [k \in 1..Len(parts) |-> Trim(parts[k])]
    IN  FilterSeq(trimmed, LongEnough)

\* sentences.find(...): the index of the first sentence that passes, 0 if none
FindFirst(passes) ==
    IF \E k \in DOMAIN passes : passes[k]
    THEN CHOOSE k \in DOMAIN passes :
            passes[k] /\ \A m \in 1..(k - 1) : ~passes[m]
    ELSE 0

\* A variant that takes the first sentence holding a keyword of any group.
BestSentenceByPosition(cleaned) ==
    LET sentences == Sentences(cleaned)
        any == FindFirst([k \in 1..Len(sentences) |->
                            \E g \in 1..Len(PriorityKeywords) :
                               KeywordTest(PriorityKeywords[g], sentences[k])])
    IN  IF any > 0 THEN sentences[any]
        ELSE IF Len(sentences) > 0 THEN sentences[1]
        ELSE Take(cleaned, FallbackChars)

\* Lines 644-661: the sentence selected.
BestSentence(cleaned) ==
    LET sentences == Sentences(cleaned)
        runs == [k \in 1..Len(sentences) |-> Runs(ToLower(sentences[k]))]
        first(g) == FindFirst([k \in 1..Len(sentences) |->
                                  RunsMatch(PriorityKeywords[g], runs[k])])
        g1 == first(1)
        g2 == first(2)
        g3 == first(3)
        byKeyword == IF g1 > 0 THEN sentences[g1]
                     ELSE IF g2 > 0 THEN sentences[g2]
                     ELSE IF g3 > 0 THEN sentences[g3]
                     ELSE ""
        byFirst == IF byKeyword = "" /\ Len(sentences) > 0 THEN sentences[1]
                   ELSE byKeyword
    IN  IF byFirst = "" THEN Take(cleaned, FallbackChars) ELSE byFirst

\* Lines 664-666: the word cap.
CapWords(best) ==
    LET words == SplitWs(best)
    IN  IF Len(words) > MaxWords THEN Join(SubSeq(words, 1, MaxWords), " ") ELSE best

\* Line 669: s.replace(/\s*[.,;]\s*$/, ""): the last punctuation character,
\* when only whitespace follows it, is removed with the whitespace around it.
StripTail(s) ==
    LET t == TrimEnd(s)
    IN  IF Len(t) > 0 /\ Ch(t, Len(t)) \in {".", ",", ";"}
        THEN TrimEnd(SubSeq(t, 1, Len(t) - 1))
        ELSE s

\* Lines 628-670
HeuristicTldr(text) ==
    IF text = "" THEN "No short takeaway available."
    ELSE LET cleaned == Trim(CollapseWs(text))
         IN  Trim(StripTail(CapWords(BestSentence(cleaned)))) \o "."

\* The texts heuristicTldr is applied to are built from these pieces.
LongRun ==
    "ab cd ef gh ij kl mn op qr st uv wx yz ab cd ef gh ij kl mn op qr st uv wx yz "

TldrPieces ==
    { "We found better yields", "The aim was to test it", "In conclusion it works",
      "Exactly twenty chars", LongRun, ". ", ".", ";", "!", " " }

\* The caller assembles the input text, piece by piece.
TldrAppend(p) ==
    /\ fn.pc = "tldr_in"
    /\ fn.n < MaxPieces
    /\ fn' = [fn EXCEPT !.text = @ \o p, !.n = @ + 1]
    /\ UNCHANGED <<hfPc, tries, attempt, delay, posts, sleeps, timerArmed,
                   elapsed, outcomes, events, hfResult, req>>

\* heuristicTldr(text) is called.
TldrApply ==
    /\ fn.pc = "tldr_in"
    /\ fn' = [fn EXCEPT !.pc = "tldr_out", !.out = HeuristicTldr(fn.text)]
    /\ UNCHANGED <<hfPc, tries, attempt, delay, posts, sleeps, timerArmed,
                   elapsed, outcomes, events, hfResult, req>>

\* Line 548: text.split(/[.!?]\s/): a ".", "!" or "?" with the whitespace
\* character after it separates two pieces.
SummarySplit(text) ==
    Pieces(LAMBDA x, i : IF Ch(x, i) \in {".", "!", "?"} /\ i < Len(x) /\ IsWs(Ch(x, i + 1))
                         THEN "cut"
                         ELSE IF IsWs(Ch(x, i)) /\ i > 1 /\ Ch(x, i - 1) \in {".", "!", "?"}
                         THEN "drop" ELSE "keep",
           text, 1, Len(text))

MinSummaryLen == 40
MaxSummarySentences == 4

\* Line 548: .filter((s) => s.length > 40)
SummaryLong(s) == Len(s) > MinSummaryLen

SummarySentences(parts) == FilterSeq([k \in 1..Len(parts) |-> Trim(parts[k])], SummaryLong)

\* A variant that appends no period.
SummaryBare(text) ==
    IF text = "" THEN "No readable text available."
    ELSE Join(SubSeq(SummarySentences(SummarySplit(text)), 1,
                     IF Len(SummarySentences(SummarySplit(text))) < MaxSummarySentences
                     THEN Len(SummarySentences(SummarySplit(text))) ELSE MaxSummarySentences),
              ". ")

\* Lines 546-550
heuristicSummary(text) ==
    IF text = "" THEN "No readable text available."
    ELSE Join(SubSeq(SummarySentences(SummarySplit(text)), 1,
                     IF Len(SummarySentences(SummarySplit(text))) < MaxSummarySentences
                     THEN Len(SummarySentences(SummarySplit(text))) ELSE MaxSummarySentences),
              ". ") \o "."

\* heuristicSummary(text) is called.
SummaryApply ==
    /\ fn.pc = "tldr_in"
    /\ fn' = [fn EXCEPT !.pc = "summary_out", !.out = heuristicSummary(fn.text)]
    /\ UNCHANGED <<hfPc, tries, attempt, delay, posts, sleeps, timerArmed,
                   elapsed, outcomes, events, hfResult, req>>

(***************************************************************************)
(* Methods mode: the research approach, lines 1020-1039 and 1072-1073.     *)
(***************************************************************************)
\* Lines 1031-1033: the terms of the three regular expressions, each term
\* the sequence of runs it is made of (a word, or word, separator, word).
QuantitativeRe ==
    { <<"quantitative">>, <<"statistical">>, <<"numerical">>, <<"experiment">>,
      <<"survey">>, <<"measurement">>, <<"anova">>, <<"regression">>,
      <<"ttest">>, <<"t", "-", "test">>, <<"t", " ", "test">>,
      <<"pca">>, <<"svm">>, <<"spm1d">>,
      <<"chisquare">>, <<"chi", "-", "square">>, <<"chi", " ", "square">>,
      <<"pearson">>, <<"spearman">> }

QualitativeRe ==
    { <<"qualitative">>, <<"phenomenological">>, <<"thematic">>, <<"interview">>,
      <<"focus", " ", "group">>, <<"content", " ", "analysis">>, <<"narrative">>,
      <<"case", " ", "study">>, <<"grounded", " ", "theory">> }

MixedRe ==
    { <<"mixedmethod">>, <<"mixedmethods">>,
      <<"mixed", "-", "method">>, <<"mixed", "-", "methods">>,
      <<"mixed", " ", "method">>, <<"mixed", " ", "methods">> }

\* The offset at which run j of r starts (0-based, as lastIndex counts).
RunStart(r, j) == Len(Join(SubSeq(r, 1, j - 1), ""))

\* The matches of \b(term|...)\b in a text with runs r: [s, e], from offset s
\* up to offset e.
Matches(re, r) ==
    { [s |-> RunStart(r, j), e |-> RunStart(r, j + 1)] :
        j \in {k \in 1..Len(r) : <<r[k]>> \in re} }
    \cup
    { [s |-> RunStart(r, j), e |-> RunStart(r, j + 3)] :
        j \in {k \in 1..(Len(r) - 2) : <<r[k], r[k + 1], r[k + 2]>> \in re} }

\* re.test(lower) of a regular expression with the g flag: the search starts
\* at lastIndex; a match moves lastIndex to its end, a failure resets it.
Test(ms, lastIndex) ==
    LET later == {m \in ms : m.s >= lastIndex}
    IN  IF later = {} THEN [found |-> FALSE, lastIndex |-> 0]
        ELSE [found |-> TRUE,
              lastIndex |-> (CHOOSE m \in later : \A o \in later : m.s <= o.s).e]

\* Lines 1035-1039
Approach(lower) ==
    LET r == Runs(lower)
        mixed == Matches(MixedRe, r)
        quant == Matches(QuantitativeRe, r)
        qual == Matches(QualitativeRe, r)
        t1 == Test(mixed, 0)
        t2 == Test(quant, 0)
        t3 == IF t2.found THEN Test(qual, 0) ELSE [found |-> FALSE, lastIndex |-> 0]
        t4 == Test(quant, t2.lastIndex)
        t5 == Test(qual, t3.lastIndex)
    IN  IF t1.found THEN "Mixed Methods"
        ELSE IF t2.found /\ t3.found THEN "Mixed Methods"
        ELSE IF t4.found THEN "Quantitative"
        ELSE IF t5.found THEN "Qualitative"
        ELSE ""

\* Lines 979, 1021, 1072-1073: the checklist's Research Approach line for a
\* request text ("" when there is none).  The bullet character of the source
\* is written "*" here.
ApproachLine(text) ==
    LET approach == Approach(ToLower(Trim(text)))
    IN  IF approach # "" THEN "* Research Approach: " \o approach ELSE ""

(***************************************************************************)
(* Author names and citation strings, lines 611 and 731-796.               *)
(***************************************************************************)
\* A variant of filter(Boolean) that keeps every element.
KeepAll(w) == TRUE

NonEmpty(w) == w # ""

\* Line 611: cap
Cap(w) == IF w = "" THEN "" ELSE ToUpper(Ch(w, 1)) \o ToLower(SubSeq(w, 2, Len(w)))

\* Line 737: the separators of /\s*(?:,|;|&|and)\s*/i.  "and" is matched in
\* any case and anywhere, also inside a word.
IsAndAt(s, i) == i >= 1 /\ i + 2 <= Len(s) /\ ToLower(SubSeq(s, i, i + 2)) = "and"
SepStartsAt(s, i) ==
    i >= 1 /\ i <= Len(s) /\ (Ch(s, i) \in {",", ";", "&"} \/ IsAndAt(s, i))
SepEndsAt(s, i) ==
    i >= 1 /\ i <= Len(s) /\ (Ch(s, i) \in {",", ";", "&"} \/ IsAndAt(s, i - 2))

\* The ends of the whitespace run that holds position i.
RECURSIVE WsRunFirst(_, _)
WsRunFirst(s, i) == IF i > 1 /\ IsWs(Ch(s, i - 1)) THEN WsRunFirst(s, i - 1) ELSE i
RECURSIVE WsRunLast(_, _)
WsRunLast(s, i) == IF i < Len(s) /\ IsWs(Ch(s, i + 1)) THEN WsRunLast(s, i + 1) ELSE i

\* Line 737: what character i is for the split: a separator takes the
\* whitespace on both its sides with it.
AuthorSplitCls(s, i) ==
    IF SepStartsAt(s, i) THEN "cut"
    ELSE IF IsAndAt(s, i - 1) \/ IsAndAt(s, i - 2) THEN "drop"
    ELSE IF /\ IsWs(Ch(s, i))
            /\ \/ SepEndsAt(s, WsRunFirst(s, i) - 1)
               \/ SepStartsAt(s, WsRunLast(s, i) + 1)
         THEN "drop"
    ELSE "keep"

\* Line 737: raw.split(/\s*(?:,|;|&|and)\s*/i).filter(Boolean)
AuthorSplit(raw) == FilterSeq(Pieces(AuthorSplitCls, raw, 1, Len(raw)), NonEmpty)

\* s.split(",")
SplitComma(s) ==
    Pieces(LAMBDA x, i : IF Ch(x, i) = "," THEN "cut" ELSE "keep", s, 1, Len(s))

\* s.split(/\s+/).filter(Boolean)
WordsIn(s) == FilterSeq(SplitWs(s), NonEmpty)

\* Lines 744-765: {first, middle, last} of one token.
NameParts(token) ==
    IF \E i \in 1..Len(token) : Ch(token, i) = ","
    THEN LET sp == SplitComma(token)
             rest == Trim(sp[2])
             parts == [k \in 1..Len(WordsIn(rest)) |-> Cap(WordsIn(rest)[k])]
         IN  [last |-> Cap(Trim(sp[1])),
              first |-> IF Len(parts) > 0 THEN parts[1] ELSE "",
              middle |-> Join(SubSeq(parts, 2, Len(parts)), " ")]
    ELSE LET parts == WordsIn(token)
         IN  IF Len(parts) >= 2
             THEN [last |-> Cap(parts[Len(parts)]),
                   first |-> Cap(parts[1]),
                   middle |-> Join([k \in 1..(Len(parts) - 2) |-> Cap(parts[k + 1])], " ")]
             ELSE [last |-> Cap(parts[1]), first |-> "", middle |-> ""]

\* Line 768: w[0] ? w[0].toUpperCase() + "." : ""
Initial(w) == IF w = "" THEN "" ELSE ToUpper(Ch(w, 1)) \o "."

\* s.replace(/,\s*$/, "")
StripTrailingComma(s) ==
    LET t == TrimEnd(s)
    IN  IF Len(t) > 0 /\ Ch(t, Len(t)) = "," THEN SubSeq(t, 1, Len(t) - 1) ELSE s

\* Lines 767-770: the "Last, F. M." entry of one name.
APAEntry(name) ==
    LET ws == <<name.first>> \o WordsIn(name.middle)
        initials == Join([k \in 1..Len(ws) |-> Initial(ws[k])], " ")
    IN  StripTrailingComma(name.last \o ", " \o initials)

\* A variant in which the list of line 739 outlives the call: it still holds
\* the entries of the citations request served before.
OutKept ==
    IF "runs" \in DOMAIN fn /\ fn.runs # <<>> THEN fn.runs[Len(fn.runs)].apaList ELSE <<>>

\* Line 739: const out = [], a new list in every call.
OutNew == <<>>

\* Lines 732-774
ParseAuthorsToAPAList(authorRaw) ==
    LET raw == Trim(authorRaw)
        tokens == FilterSeq([k \in 1..Len(AuthorSplit(raw)) |-> Trim(AuthorSplit(raw)[k])],
                            NonEmpty)
        out == OutNew \o [k \in 1..Len(tokens) |-> APAEntry(NameParts(tokens[k]))]
    IN  IF raw = "" THEN <<"Author">>
        ELSE IF Len(out) > 0 THEN out ELSE <<"Author">>

\* Lines 778-784
ToIEEEList(apaList) ==
    [k \in 1..Len(apaList) |->
        LET sp == SplitComma(apaList[k])
            last == Trim(sp[1])
            initials == IF Len(sp) >= 2 THEN Trim(sp[2]) ELSE ""
        IN  CollapseWs(Trim(initials \o " " \o last))]

\* Lines 789-794: one part of the BibTeX author field.  A template literal
\* renders an undefined value as "undefined".
BibPart(a) ==
    LET sp == SplitComma(a)
        last == Trim(sp[1])
        initials == IF Len(sp) >= 2 THEN Trim(sp[2]) ELSE "undefined"
    IN  last \o ", " \o initials

\* Lines 787-796
ToBibtexAuthor(authorRaw) ==
    LET apaList == ParseAuthorsToAPAList(authorRaw)
    IN  Join([k \in 1..Len(apaList) |-> BibPart(apaList[k])], " and ")

\* The author strings are built from these pieces.
AuthorPieces ==
    { "Dela Cruz", "Juan", "mARIA", "Sandra", ", ", ",", " ", " and ", " & ", ";" }

\* The caller assembles meta.author, piece by piece.
CiteAppend(p) ==
    /\ fn.pc = "cite_in"
    /\ fn.n < MaxAuthorPieces
    /\ fn' = [fn EXCEPT !.text = @ \o p, !.n = @ + 1]
    /\ UNCHANGED <<hfPc, tries, attempt, delay, posts, sleeps, timerArmed,
                   elapsed, outcomes, events, hfResult, req>>

\* Lines 982-984: POST /abstract-tools computes the author lists.
CiteApply ==
    /\ fn.pc = "cite_in"
    /\ fn' = [fn EXCEPT !.pc = "cite_out",
                        !.out = [apaList |-> ParseAuthorsToAPAList(fn.text),
                                 ieeeList |-> ToIEEEList(ParseAuthorsToAPAList(fn.text)),
                                 bibtexAuthor |-> ToBibtexAuthor(fn.text)]]
    /\ UNCHANGED <<hfPc, tries, attempt, delay, posts, sleeps, timerArmed,
                   elapsed, outcomes, events, hfResult, req>>

(***************************************************************************)
(* The request handlers that call callHF: generateTldr (lines 672-729),    *)
(* POST /summary (852-933), POST /abstract-tools in the modes tldr         *)
(* (990-1018) and recommendations (1085-1543), POST /tldr (1600-1637).     *)
(***************************************************************************)
\* s.replace(/\s*[chars]\s*$/, "") when lead, s.replace(/[chars]\s*$/, "")
\* when not.
StripTailSet(s, chars, lead) ==
    LET t == TrimEnd(s)
    IN  IF Len(t) > 0 /\ Ch(t, Len(t)) \in chars
        THEN (IF lead THEN TrimEnd(SubSeq(t, 1, Len(t) - 1)) ELSE SubSeq(t, 1, Len(t) - 1))
        ELSE s

StartsWithCI(s, prefix) ==
    Len(s) >= Len(prefix) /\ ToLower(Take(s, Len(prefix))) = ToLower(prefix)

RECURSIVE DropWhile(_, _)
DropWhile(s, chars) ==
    IF Len(s) > 0 /\ Ch(s, 1) \in chars THEN DropWhile(SubSeq(s, 2, Len(s)), chars) ELSE s

\* Line 709: raw.replace(/^(TLDR|TL;DR|Summary|In summary|The study)\s*[:.-]*\s*/gi, "")
TldrLabels == <<"TLDR", "TL;DR", "Summary", "In summary", "The study">>

AfterLabel(raw, k) ==
    TrimStart(DropWhile(TrimStart(SubSeq(raw, Len(TldrLabels[k]) + 1, Len(raw))), {":", ".", "-"}))

FirstLabel(raw, hits) ==
    IF hits = {} THEN raw ELSE AfterLabel(raw, CHOOSE x \in hits : \A y \in hits : x <= y)

StripTldrPrefix(raw) ==
    FirstLabel(raw, {k \in 1..Len(TldrLabels) : StartsWithCI(raw, TldrLabels[k])})

\* Lines 713-721: a final period, and at most 45 words.
EnsureSentence(raw) == IF Len(raw) > 0 /\ Ch(raw, Len(raw)) = "." THEN raw ELSE raw \o "."

LimitWords(raw, words, max) ==
    IF Len(words) > max
    THEN StripTailSet(Join(SubSeq(words, 1, max), " "), {".", ",", ";"}, FALSE) \o "."
    ELSE raw

WordLimit(raw, max) == LimitWords(raw, SplitWs(raw), max)

\* Lines 704-722: the model's text made a one-sentence takeaway.  (The
\* ellipsis character of line 710 is outside the texts modelled.)
CleanModelTldr(raw) ==
    WordLimit(EnsureSentence(Trim(StripTailSet(StripTldrPrefix(raw), {"."}, TRUE))), 45)

\* Line 673
TldrBase(text) == Trim(CollapseWs(text))

\* Lines 699-728: generateTldr once callHF has settled; a rejection of
\* callHF is caught (line 725).
GenerateTldrAfter(base, result) ==
    IF result.tag = "text" /\ Trim(result.val) # ""
    THEN [via |-> "model", text |-> CleanModelTldr(Trim(result.val))]
    ELSE [via |-> "heuristic", text |-> HeuristicTldr(base)]

\* A variant that answers with the takeaway alone.
ToolsTldrBare(tldr) ==
    WordLimit(StripTailSet(tldr, {"."}, TRUE) \o ".", MaxWords)

\* Lines 1010-1017: the final cleanup of mode tldr.
ToolsTldrText(tldr) ==
    "**Short Takeaway:** " \o WordLimit(StripTailSet(tldr, {"."}, TRUE) \o ".", MaxWords)

\* Lines 1625-1632: the final cleanup of POST /tldr.
Limit80(tldr, words) ==
    IF Len(words) > 80 THEN Join(SubSeq(words, 1, 80), " ") \o "." ELSE tldr

TldrRouteText(tldr) ==
    Limit80(StripTailSet(tldr, {"."}, TRUE) \o ".", SplitWs(StripTailSet(tldr, {"."}, TRUE) \o "."))

\* Lines 537-544: normalizeParagraph
StripLabel(s, label) ==
    IF StartsWithCI(s, label)
    THEN DropWhile(SubSeq(s, Len(label) + 1, Len(s)), {":", ".", "-", " ", "\t", "\n", "\r"})
    ELSE s

NormalizeParagraph(s) == Trim(StripLabel(StripLabel(CollapseWs(s), "abstract"), "summary"))

\* What callHF may hand back to a handler: Success with a text, Failure, or
\* a rejection (HandleBody).
ModelTexts ==
    { "",
      "TL;DR: Yields improved by a fifth.",
      "Abstract: the trial compared two irrigation schedules on forty plots of rice.",
      "The trial compared two irrigation schedules on forty plots of rice and found that the drip schedule raised yields by a fifth with less water." }

CallResults ==
    { Resolved("error", "HF 503: model busy/starting"), Resolved("throw", "TypeError") }
    \cup { Resolved("text", t) : t \in ModelTexts }

\* The abstracts and document texts of the requests.
SampleTexts ==
    { "", " ",
      "This study found that X improved performance by 20%. Researchers recommend further testing.",
      "We found better yields.." }

\* The candidates strategies 1 to 5 of recommendations mode may have
\* collected from the text (lines 1100-1359).
LocalCandidates ==
    { <<>>,
      <<"Schools should adopt the drip schedule.">>,
      <<"Schools should adopt the drip schedule.", "schools should adopt the drip schedule">>,
      <<"CONCLUSION 5 farmers should add water", "THE DRIP SCHEDULE", "Too short to keep.">> }

Routes == {"tools_tldr", "tldr", "summary", "tools_recs"}

NoResp == [status |-> 0, via |-> "", text |-> ""]
Resp(status, via, text) == [status |-> status, via |-> via, text |-> text]

\* A request: route, whether HF_TOKEN is configured, the source text (the
\* abstract sent with the request), whether the text the handler works on,
\* the attached document's included, is long enough for the model to be
\* called (cleaned.length >= 800 in /summary, fullText.length > 200 in
\* recommendations mode), the candidates of the local strategies
\* (recommendations mode), bartText (/summary), the callHF results so far
\* and the response.
Request(pc, route, token, source, long, local, calls, resp) ==
    [pc |-> pc, route |-> route, token |-> token, source |-> source, long |-> long,
     local |-> local, bartText |-> "", calls |-> calls, resp |-> resp]

Respond(r, resp) == [r EXCEPT !.pc = "responded", !.resp = resp]

Includes(s, sub) ==
    \E i \in 1..(Len(s) - Len(sub) + 1) : SubSeq(s, i, i + Len(sub) - 1) = sub

StartsWith(s, prefix) == Len(s) >= Len(prefix) /\ Take(s, Len(prefix)) = prefix

\* Lines 1429-1438, 1447-1454: excludePatterns, on the words w of the
\* lower-cased candidate.
WordIs(w, k, word) == k <= Len(w) /\ w[k] = word
WordStarts(w, k, word) == k <= Len(w) /\ StartsWith(w[k], word)
WordEnds(w, k, word) ==
    k <= Len(w) /\ Len(w[k]) >= Len(word)
    /\ SubSeq(w[k], Len(w[k]) - Len(word) + 1, Len(w[k])) = word
WordIsNumber(w, k) == k <= Len(w) /\ Len(w[k]) > 0 /\ Ch(w[k], 1) \in CharsOf(Digits)

ExcludedWords(trimmed, w) ==
    \/ WordIs(w, 1, "to") /\ WordIs(w, 2, "address") /\ WordIs(w, 3, "the")
       /\ (WordStarts(w, 4, "issue")
           \/ (WordIs(w, 4, "following") /\ WordStarts(w, 5, "question")))
    \/ WordIs(w, 1, "to") /\ WordIs(w, 2, "add") /\ WordIs(w, 3, "an")
       /\ WordStarts(w, 4, "unnecessary")
    \/ WordIs(w, 1, "to") /\ WordIs(w, 2, "address") /\ WordIs(w, 3, "climate")
       /\ WordStarts(w, 4, "change")
    \/ \E k \in 1..Len(w) : WordEnds(w, k, "government") /\ WordIs(w, k + 1, "dropped")
                            /\ WordIs(w, k + 2, "the") /\ WordStarts(w, k + 3, "prices")
    \/ WordIs(w, 1, "future") /\ WordIs(w, 2, "research") /\ WordIsNumber(w, 3)
    \/ WordIs(w, 1, "conclusion") /\ WordIsNumber(w, 2)
    \/ WordIs(w, 1, "chapter") /\ WordIsNumber(w, 2)
    \/ Len(trimmed) >= 10
       /\ \A i \in 1..Len(trimmed) : Ch(trimmed, i) \in UpperSet \/ IsWs(Ch(trimmed, i))

Excluded(trimmed) == ExcludedWords(trimmed, SplitWs(ToLower(trimmed)))

\* Lines 1459-1480: isValid
IsValidRec(lower) ==
    \/ \E k \in {"should", "recommend", "suggest", "need to", "would benefit", "better",
                 "improve", "add", "consider", "investigate", "examine", "value of",
                 "positive interventions", "freshmen need", "more studies",
                 "further studies", "research on", "effects of"} : Includes(lower, k)
    \/ \E k \in {"to ", "administration ", "the study "} : StartsWith(lower, k)

\* Lines 1485-1488: the deduplication key
RecKey(lower) ==
    Take(CollapseWs(CatStr(LAMBDA str, i : IF IsWordCh(Ch(str, i)) \/ IsWs(Ch(str, i))
                                          THEN Ch(str, i) ELSE "",
                           lower, 1, Len(lower))), 60)

\* Lines 1494-1498: final formatting
Capitalised(rec) ==
    IF Len(rec) > 0 /\ Ch(rec, 1) \notin UpperSet
    THEN UpperCh(Ch(rec, 1)) \o SubSeq(rec, 2, Len(rec)) ELSE rec

FormatRec(trimmed) ==
    Capitalised(IF Ch(trimmed, Len(trimmed)) \in {".", "!", "?"} THEN trimmed ELSE trimmed \o ".")

\* A variant of the final processing that does not look at the keys seen.
ProcessRecUnseen(before, trimmed, key) ==
    IF Len(trimmed) < 25 \/ Excluded(trimmed) \/ ~IsValidRec(ToLower(trimmed))
    THEN before
    ELSE [final |-> Append(before.final, FormatRec(trimmed)), seen |-> before.seen \cup {key}]

\* Lines 1441-1501: one candidate, after those before it.  before holds the
\* final recommendations and the keys seen so far.
ProcessRec(before, trimmed, key) ==
    IF Len(trimmed) < 25 \/ Excluded(trimmed) \/ ~IsValidRec(ToLower(trimmed))
       \/ key \in before.seen
    THEN before
    ELSE [final |-> Append(before.final, FormatRec(trimmed)), seen |-> before.seen \cup {key}]

\* Lines 1440-1504: final processing.
RECURSIVE FinalProcessing(_, _)
FinalProcessing(recs, n) ==
    IF n = 0 THEN [final |-> <<>>, seen |-> {}]
    ELSE ProcessRec(FinalProcessing(recs, n - 1), Trim(recs[n]), RecKey(ToLower(Trim(recs[n]))))

FinalRecommendations(recs) == Take(FinalProcessing(recs, Len(recs)).final, 12)

Numerals == <<"1", "2", "3", "4", "5", "6", "7", "8", "9", "10", "11", "12">>

RECURSIVE NumberedList(_, _)
NumberedList(recs, n) ==
    IF n = 0 THEN ""
    ELSE NumberedList(recs, n - 1) \o Numerals[n] \o ". " \o recs[n] \o "\n\n"

\* Lines 1508-1526: the text of the answer.  The bullet of lines 1523-1525 is
\* written "* ".
RecsText(final) ==
    "**Research Recommendations**\n\n" \o
    (IF Len(final) = 1
     THEN "Based on analysis of the research content, 1 recommendation was identified:\n\n"
          \o NumberedList(final, 1)
     ELSE IF Len(final) > 1
     THEN "Based on analysis of the research content, " \o Numerals[Len(final)]
          \o " recommendations were identified:\n\n" \o NumberedList(final, Len(final))
     ELSE "No specific recommendations were identified in the text.\n\n"
          \o "This could be because:\n"
          \o "* The study may not include explicit recommendations\n"
          \o "* Recommendations are embedded in discussion or conclusion sections\n"
          \o "* The text format may not follow standard recommendation patterns\n")

\* Lines 1425-1532: the answer of recommendations mode for the candidates recs.
RecsResponse(recs) == Resp(200, "recommendations", RecsText(FinalRecommendations(recs)))

\* Lines 1393-1410: the candidates taken from the model's text.  The texts
\* modelled are one line each and carry no list marker.
AiLine(cased) == IF Len(cased) > 20 /\ Len(cased) < 300 THEN <<cased>> ELSE <<>>

AiLines(text) ==
    IF Len(Trim(text)) > 20 THEN AiLine(FormatRec(Trim(text))) ELSE <<>>

\* The handler runs from the arrival of the request to its first callHF
\* call or to its response.
TldrSource(r) == IF r.route = "tools_tldr" THEN Trim(r.source) ELSE TldrBase(r.source)

\* Lines 1010-1017 and 1625-1632
TldrResponse(route, g) ==
    Resp(200, g.via, IF route = "tools_tldr" THEN ToolsTldrText(g.text) ELSE TldrRouteText(g.text))

\* A variant that asks the model whenever it can.
Strategy6Always(r) == r.token /\ r.long

\* Line 1362: the test of strategy 6.
Strategy6Runs(r) == r.local = <<>> /\ r.token /\ r.long

HandlerStart(r) ==
    CASE r.route \in {"tools_tldr", "tldr"} ->
           \* lines 990-1008 and 1602-1623
           IF TldrSource(r) = ""
           THEN Respond(r, IF r.route = "tools_tldr"
                           THEN Resp(200, "none", "**Short Takeaway:** No content available for summary.")
                           ELSE Resp(400, "error", "No text/PDF content to summarize."))
           ELSE IF r.token THEN [r EXCEPT !.pc = "await_tldr"]
           ELSE Respond(r, TldrResponse(r.route, [via |-> "heuristic",
                                                  text |-> HeuristicTldr(TldrSource(r))]))
      [] r.route = "summary" ->
           \* lines 854-895
           IF ~r.token THEN Respond(r, Resp(500, "error", "Missing HF_TOKEN."))
           ELSE IF Trim(r.source) = ""
           THEN Respond(r, Resp(400, "error", "No text or readable PDF content provided."))
           ELSE IF ~r.long THEN Respond(r, Resp(200, "heuristic", "heuristicSummary(cleaned)"))
           ELSE [r EXCEPT !.pc = "await_bart"]
      [] r.route = "tools_recs" ->
           \* lines 1090-1098, 1362
           IF Trim(r.source) = ""
           THEN Respond(r, Resp(200, "none",
                        "**Research Recommendations**\n\nNo readable text content available for analysis."))
           ELSE IF Strategy6Runs(r) THEN [r EXCEPT !.pc = "await_recs"]
           ELSE Respond(r, RecsResponse(r.local))

\* The text a handler destructures from callHF's result; undefined is
\* written "", which the handlers treat alike (!text, text || "").
TextOf(result) == IF result.tag = "text" THEN result.val ELSE ""

\* Lines 923-928
SummaryFinish(r, summary, usedModel) ==
    IF summary = "" \/ Len(summary) < 50
    THEN Respond(r, Resp(200, "heuristic", "heuristicSummary(cleaned)"))
    ELSE Respond(r, Resp(200, usedModel, summary))

\* Lines 908-921
AfterBart(r, summary) ==
    IF summary = "" \/ Len(summary) < 80
    THEN [r EXCEPT !.pc = "await_t5"]
    ELSE SummaryFinish(r, summary, "facebook/bart-large-cnn")

SummaryAfterBart(r, bartText) ==
    AfterBart([r EXCEPT !.bartText = bartText], NormalizeParagraph(bartText))

\* The handler c, which has recorded the settled callHF call it awaited,
\* runs on to its next callHF call or to its response.
Resume(c, result) ==
    CASE c.pc = "await_tldr" ->
           \* lines 1001, 1616 and the final cleanup
           Respond(c, TldrResponse(c.route, GenerateTldrAfter(TldrBase(c.source), result)))
      [] c.pc \in {"await_bart", "await_retry", "await_t5"} /\ result.tag = "throw" ->
           \* lines 929-932
           Respond(c, Resp(500, "error", "Summarization failed."))
      [] c.pc = "await_bart" /\ result.tag # "throw" ->
           \* lines 888-897
           IF TextOf(result) = "" \/ Len(TextOf(result)) < 100
           THEN [c EXCEPT !.pc = "await_retry", !.bartText = TextOf(result)]
           ELSE SummaryAfterBart(c, TextOf(result))
      [] c.pc = "await_retry" /\ result.tag # "throw" ->
           \* lines 899-905
           SummaryAfterBart(c, TextOf(result))
      [] c.pc = "await_t5" /\ result.tag # "throw" ->
           \* lines 913-920
           SummaryFinish(c, NormalizeParagraph(TextOf(result)), "t5-base")
      [] c.pc = "await_recs" ->
           \* lines 1390-1419: a rejection of callHF is caught at line 1417
           Respond(c, RecsResponse(IF result.tag = "text" /\ result.val # ""
                                   THEN AiLines(result.val) ELSE <<>>))

HandlerResume(r, result) == Resume([r EXCEPT !.calls = Append(r.calls, result)], result)

Awaiting == {"await_tldr", "await_bart", "await_retry", "await_t5", "await_recs"}

\* A request arrives and its handler runs to its first await.
Receive(route, token, source, long, local) ==
    /\ req.pc = "idle"
    /\ req' = HandlerStart(Request("start", route, token, source, long, local, <<>>, NoResp))
    /\ UNCHANGED <<hfPc, tries, attempt, delay, posts, sleeps, timerArmed,
                   elapsed, outcomes, events, hfResult, fn>>

\* The callHF call the handler awaits settles; the handler runs on.
HFReturns(result) ==
    /\ req.pc \in Awaiting
    /\ req' = HandlerResume(req, result)
    /\ UNCHANGED <<hfPc, tries, attempt, delay, posts, sleeps, timerArmed,
                   elapsed, outcomes, events, hfResult, fn>>

(***************************************************************************)
(* Methods mode: the checklist, lines 1020-1082.  A regular expression of  *)
(* lines 1042-1067 is the sequence of its alternatives, in the order it    *)
(* tries them; "x[- ]?y" stands as "x-y", "x y", "xy".                     *)
(***************************************************************************)
Opt(x, y) == <<x \o "-" \o y, x \o " " \o y, x \o y>>

\* Line 1042
DesignRe ==
    <<"experimental">> \o Opt("quasi", "experimental")
    \o <<"descriptive", "correlational", "comparative", "observational",
         "phenomenological", "survey">>
    \o Opt("case", "study") \o <<"developmental">> \o Opt("design", "based")
    \o <<"prototype", "simulation", "hardware testing", "usability", "iot", "automation">>

\* Line 1046
EnvironmentRe ==
    <<"school", "laboratory", "farm", "field", "garden", "community", "classroom",
      "simulation", "prototype", "testing", "home", "urban", "rural">>

\* Line 1055
InstrumentsRe ==
    <<"questionnaire", "sensor", "arduino", "esp8266", "hx711", "mlx90393", "force plate",
      "camera", "dht11", "soil moisture", "relay", "ph sensor", "lcd", "survey form",
      "interview guide", "observation sheet", "data logger", "fusion 360", "ansys",
      "simulation", "excel", "solar panel", "humidity sensor", "transmitter",
      "microcontroller">>

\* Line 1059
SoftwareRe ==
    <<"excel", "spss", "python", "matlab", "arduino ide", "adafruit", "thinger", "io",
      "blynk", "cloud", "web app", "iot platform", "mobile app", "firebase">>
    \o Opt("node", "red")

\* Line 1063
AnalysisRe ==
    <<"mean">> \o Opt("t", "test")
    \o <<"anova", "regression", "correlation", "descriptive", "content analysis",
         "thematic", "coding", "trend", "comparison", "graphical", "statistical",
         "qualitative interpretation">>

\* Line 1067, between \b and \b
OutcomesRe ==
    <<"growth", "height", "efficien", "performance", "accuracy", "speed", "yield",
      "output", "temperature", "humidity", "voltage", "data", "pressure", "response",
      "feedback">>

\* \b at position i: a word character on exactly one side.
BoundaryAt(s, i) ==
    (i > 1 /\ IsWordCh(Ch(s, i - 1))) # (i <= Len(s) /\ IsWordCh(Ch(s, i)))

\* Alternative alt matches at position i.
AltAt(lower, i, alt, bounded) ==
    /\ i + Len(alt) - 1 <= Len(lower)
    /\ SubSeq(lower, i, i + Len(alt) - 1) = alt
    /\ bounded => BoundaryAt(lower, i) /\ BoundaryAt(lower, i + Len(alt))

\* The alternatives of a regular expression by their first character, each
\* group in the order of the expression.
ByFirst(re) ==
    [c \in {Ch(re[k], 1) : k \in 1..Len(re)} |-> SelectSeq(re, LAMBDA alt : Ch(alt, 1) = c)]

DesignAlts == ByFirst(DesignRe)
EnvironmentAlts == ByFirst(EnvironmentRe)
InstrumentsAlts == ByFirst(InstrumentsRe)
SoftwareAlts == ByFirst(SoftwareRe)
AnalysisAlts == ByFirst(AnalysisRe)
OutcomesAlts == ByFirst(OutcomesRe)

\* The first of the alternatives alts that matches at position i, "" when
\* none does.
FirstAlt(lower, i, alts, bounded) ==
    (alts \o <<"">>)[Least({k \in 1..Len(alts) : AltAt(lower, i, alts[k], bounded)}
                           \cup {Len(alts) + 1})]

\* The match at position i, whose character is c: only an alternative that
\* starts with c can match.
MatchAt(lower, i, c, re, bounded) ==
    IF c \in DOMAIN re THEN FirstAlt(lower, i, re[c], bounded) ELSE ""

\* The positions of lower at which the expression matches, with the match.
Hits(lower, re, bounded) ==
    SelectSeq([j \in 1..Len(lower) |->
                  [at |-> j, m |-> MatchAt(lower, j, Ch(lower, j), re, bounded)]],
              LAMBDA h : h.m # "")

\* matchAll takes the leftmost match from position pos on and goes on after it.
RECURSIVE Walk(_, _, _)
Walk(hits, k, pos) ==
    IF k > Len(hits) THEN <<>>
    ELSE IF hits[k].at < pos THEN Walk(hits, k + 1, pos)
    ELSE <<hits[k].m>> \o Walk(hits, k + 1, hits[k].at + Len(hits[k].m))

\* Line 1022: findAll, [...lower.matchAll(re)].map(x => x[0]), from position
\* i on.
findAll(lower, i, re, bounded) == Walk(Hits(lower, re, bounded), 1, i)

\* [...new Set(arr)]: the first occurrences, in order.
Unique(arr) == FilterSeq([k \in 1..Len(arr) |-> IF \E j \in 1..(k - 1) : arr[j] = arr[k]
                                                 THEN "" ELSE arr[k]], NonEmpty)

\* Lines 1025-1028: dedup
TitleFirst(x) == UpperCh(Ch(x, 1)) \o SubSeq(x, 2, Len(x))

dedup(arr) ==
    [k \in 1..Len(Unique([j \in 1..Len(arr) |-> ToLower(Trim(arr[j]))])) |->
        TitleFirst(Unique([j \in 1..Len(arr) |-> ToLower(Trim(arr[j]))])[k])]

\* Line 1050: /n\s*=\s*\d+/ at position i: the position after the match, 0
\* when it fails.
DigitsFrom(s, d) == IF SkipWhile(s, d, DigitSet) > d THEN SkipWhile(s, d, DigitSet) ELSE 0

EqualsNumber(s, p) ==
    IF p <= Len(s) /\ Ch(s, p) = "=" THEN DigitsFrom(s, SkipWhile(s, p + 1, WsSet)) ELSE 0

NEqualsAt(s, i) ==
    IF Ch(s, i) = "n" THEN EqualsNumber(s, SkipWhile(s, i + 1, WsSet)) ELSE 0

\* Line 1051: the words of the second pattern; "participants?" stands as
\* "participants", "participant".
SampleWords ==
    <<"sample size", "participants", "participant", "respondents", "respondent",
      "subjects", "subject", "farmers", "farmer", "students", "student">>

\* \s*[:=]?\s*\d+ from position p on.
CountFrom(s, p) ==
    IF p <= Len(s) /\ Ch(s, p) \in {":", "="}
    THEN DigitsFrom(s, SkipWhile(s, p + 1, WsSet))
    ELSE DigitsFrom(s, p)

\* The word of the second pattern at position i, after a \b.
SampleWordAt(s, i) ==
    IF BoundaryAt(s, i) /\ \E k \in 1..Len(SampleWords) : AltAt(s, i, SampleWords[k], FALSE)
    THEN SampleWords[Least({k \in 1..Len(SampleWords) : AltAt(s, i, SampleWords[k], FALSE)})]
    ELSE ""

SampleCountAt(s, i) ==
    IF SampleWordAt(s, i) = "" THEN 0
    ELSE CountFrom(s, SkipWhile(s, i + Len(SampleWordAt(s, i)), WsSet))

\* Line 1052: sample.replace(/\s*[:=]\s*/g, " = "); a match of lines
\* 1050-1051 holds at most one ":" or "=".
SpaceEquals(sample) ==
    IF FirstOf(sample, 1, {":", "="}) > Len(sample) THEN sample
    ELSE TrimEnd(SubSeq(sample, 1, FirstOf(sample, 1, {":", "="}) - 1)) \o " = "
         \o TrimStart(SubSeq(sample, FirstOf(sample, 1, {":", "="}) + 1, Len(sample)))

NEqualsSpan(s, i) == SubSeq(s, i, NEqualsAt(s, i) - 1)
SampleCountSpan(s, i) == SubSeq(s, i, SampleCountAt(s, i) - 1)

\* Lines 1049-1052: sample
Sample(lower) ==
    IF {i \in 1..Len(lower) : NEqualsAt(lower, i) > 0} # {}
    THEN SpaceEquals(CollapseWs(NEqualsSpan(lower,
             Least({i \in 1..Len(lower) : NEqualsAt(lower, i) > 0}))))
    ELSE IF {i \in 1..Len(lower) : SampleCountAt(lower, i) > 0} # {}
    THEN SpaceEquals(SampleCountSpan(lower,
             Least({i \in 1..Len(lower) : SampleCountAt(lower, i) > 0})))
    ELSE ""

\* Line 1060: "Io" is shown as "IoT".
IoT(software) == [k \in 1..Len(software) |-> IF ToLower(software[k]) = "io" THEN "IoT"
                                              ELSE software[k]]

\* A variant of the checklist that writes a line for every category.
LineAlways(label, terms) == <<label \o Join(terms, ", ")>>

\* Lines 1074-1079: a category with terms gives one line.
LineIf(label, terms) == IF Len(terms) > 0 THEN <<label \o Join(terms, ", ")>> ELSE <<>>

\* Lines 1035-1039 and 1073
ApproachOf(line) == IF line # "" THEN <<line>> ELSE <<>>

\* Line 1076
SampleLine(sample) == IF sample # "" THEN <<"* Participants/Sample: " \o sample>> ELSE <<>>

\* Lines 1067-1069 and 1080
OutcomesLine(found) ==
    IF Len(found) > 0
    THEN <<"* Primary Outcomes: Identify variables like "
           \o Join(Take(dedup(found), 5), ", ") \o ".">>
    ELSE <<>>

\* Lines 1072-1080: lines; text is the request text, lower its lower case.
ChecklistOf(text, lower) ==
    <<"Methods Checklist">>
    \o ApproachOf(ApproachLine(text))
    \o LineIf("* Research Design: ", dedup(findAll(lower, 1, DesignAlts, FALSE)))
    \o LineIf("* Research Environment: ", dedup(findAll(lower, 1, EnvironmentAlts, FALSE)))
    \o SampleLine(Sample(lower))
    \o LineIf("* Instruments/Tools: ", dedup(findAll(lower, 1, InstrumentsAlts, FALSE)))
    \o LineIf("* Software/Platform Used: ", IoT(dedup(findAll(lower, 1, SoftwareAlts, FALSE))))
    \o LineIf("* Data Analysis: ", dedup(findAll(lower, 1, AnalysisAlts, FALSE)))
    \o OutcomesLine(findAll(lower, 1, OutcomesAlts, TRUE))

Checklist(text) == ChecklistOf(text, ToLower(Trim(text)))

\* The abstracts of methods mode are built from these pieces.
MethodsPieces ==
    { "survey ", "ANOVA ", "t-test ", "case study ",
      "mixed methods ", "surveys ", "humidity sensor ", "n = 30 ", "station " }

\* The caller assembles the abstract, piece by piece.
MethodsAppend(p) ==
    /\ fn.pc = "methods_in"
    /\ fn.n < MaxMethodsPieces
    /\ fn' = [fn EXCEPT !.text = @ \o p, !.n = @ + 1]
    /\ UNCHANGED <<hfPc, tries, attempt, delay, posts, sleeps, timerArmed,
                   elapsed, outcomes, events, hfResult, req>>

\* The Research Approach line of a checklist ("" when it has none).
ApproachIn(lines) ==
    IF Len(lines) >= 2 /\ StartsWith(lines[2], "* Research Approach: ") THEN lines[2] ELSE ""

\* Line 1082: the answer, with its Research Approach line apart.
MethodsOut(f, lines) ==
    [f EXCEPT !.pc = "methods_out", !.out = ApproachIn(lines), !.lines = lines]

\* POST /abstract-tools with mode "methods".
MethodsApply ==
    /\ fn.pc = "methods_in"
    /\ fn' = MethodsOut(fn, Checklist(fn.text))
    /\ UNCHANGED <<hfPc, tries, attempt, delay, posts, sleeps, timerArmed,
                   elapsed, outcomes, events, hfResult, req>>

(***************************************************************************)
(* Recommendations mode, the local strategies: lines 1100-1359.            *)
(* Positions in a string are 1-based; Len(s) + 1 is the position past the  *)
(* end, 0 stands for "no match".                                           *)
(***************************************************************************)
\* [^\n]+ from position i: the last position of the line.
LineEnd(s, i) ==
    CHOOSE j \in i..Len(s) :
        /\ j = Len(s) \/ Ch(s, j + 1) = "\n"
        /\ \A k \in i..j : Ch(s, k) # "\n"

\* Lines 1103-1107: CRLF to LF, three or more line breaks to two, then every
\* whitespace run (line breaks included) to one space, then trim.  The first
\* two rewrite whitespace runs into non-empty whitespace runs, which the
\* third collapses.
CollapseAll(fullText) == Trim(CollapseWs(fullText))

\* Line 1111: /(?:^|\n)\s*\d+\s*(?=\n|$)/g to "\n".  A number is removed
\* when it stands alone between line breaks or the ends of the text: in a
\* text without line breaks, when it is the whole text.
AloneNumber(t) ==
    /\ Trim(t) # ""
    /\ \A i \in 1..Len(Trim(t)) : Ch(Trim(t), i) \in DigitSet

RemovePageNumbers(t) ==
    IF \A i \in 1..Len(t) : Ch(t, i) # "\n"
    THEN (IF AloneNumber(t) THEN "\n" ELSE t)
    ELSE t

\* Line 1114: the number that follows a "Recommendations for Practice" or
\* "Recommendations for Research" heading goes, with the whitespace before it.
SectionHeadings == <<"recommendations for practice", "recommendations for research">>

\* Position e ends a heading.
HeadingEndsAt(lower, e) ==
    \E h \in 1..Len(SectionHeadings) :
        /\ e >= Len(SectionHeadings[h])
        /\ SubSeq(lower, e - Len(SectionHeadings[h]) + 1, e) = SectionHeadings[h]

\* The position after the \s+\d+ that follows position e.
HeadingNumberEnd(s, e) == SkipWhile(s, SkipWhile(s, e + 1, WsSet), DigitSet)

\* A heading ends at e and \s+\d+ follows it.
HeadingWithNumber(s, lower, e) ==
    /\ HeadingEndsAt(lower, e)
    /\ SkipWhile(s, e + 1, WsSet) > e + 1
    /\ HeadingNumberEnd(s, e) > SkipWhile(s, e + 1, WsSet)

\* The g-flagged replace from position `from` on: the text up to the first
\* heading that carries a number, then the rest after that number.
RECURSIVE RemoveFrom(_, _, _)
DropNumber(s, lower, from, e) ==
    SubSeq(s, from, e) \o RemoveFrom(s, lower, HeadingNumberEnd(s, e))

RemoveFrom(s, lower, from) ==
    IF {e \in from..Len(s) : HeadingWithNumber(s, lower, e)} = {} THEN SubSeq(s, from, Len(s))
    ELSE DropNumber(s, lower, from, Least({e \in from..Len(s) : HeadingWithNumber(s, lower, e)}))

RemoveHeadingNumbers(t) == RemoveFrom(t, ToLower(t), 1)

\* Lines 1103-1114: cleanedText
CleanedText(fullText) == RemoveHeadingNumbers(RemovePageNumbers(CollapseAll(fullText)))

\* The lookaheads that end an item: the next line starts, after whitespace,
\* a numbered item (\d+[.)]), a lettered item ([a-z][.)]) or a heading in
\* capitals that runs to the end of the text ([A-Z][A-Z\s]+$).
StartsNumbered(s, a) ==
    /\ a <= Len(s) /\ Ch(s, a) \in DigitSet
    /\ SkipWhile(s, a, DigitSet) <= Len(s)
    /\ Ch(s, SkipWhile(s, a, DigitSet)) \in {".", ")"}

StartsLettered(s, a) ==
    a < Len(s) /\ Ch(s, a) \in LowerSet /\ Ch(s, a + 1) \in {".", ")"}

StartsCapsToEnd(s, a) ==
    /\ a < Len(s) /\ Ch(s, a) \in UpperSet
    /\ \A k \in (a + 1)..Len(s) : Ch(s, k) \in UpperSet \/ Ch(s, k) \in WsSet

StopsAt(s, a, stops) ==
    \/ "numbered" \in stops /\ StartsNumbered(s, a)
    \/ "lettered" \in stops /\ StartsLettered(s, a)
    \/ "caps" \in stops /\ StartsCapsToEnd(s, a)

\* (?:\n(?!...)[^\n]+)* after an item that ends at e: the following lines
\* are taken while they are not empty and do not start something new.
RECURSIVE ItemEnd(_, _, _)
ItemEnd(s, e, stops) ==
    IF /\ e + 2 <= Len(s) /\ Ch(s, e + 1) = "\n" /\ Ch(s, e + 2) # "\n"
       /\ ~StopsAt(s, SkipWhile(s, e + 2, WsSet), stops)
    THEN ItemEnd(s, LineEnd(s, e + 2), stops)
    ELSE e

\* The position of the "." or ")" of an item head that starts at a.
HeadMark(s, a, head) ==
    IF head = "numbered" /\ StartsNumbered(s, a) THEN SkipWhile(s, a, DigitSet)
    ELSE IF head = "lettered" /\ StartsLettered(s, a) THEN a + 1
    ELSE 0

\* \s+ after the mark at b, then the first character of the item.
AfterMark(s, b) ==
    IF b > 0 /\ b < Len(s) /\ Ch(s, b + 1) \in WsSet /\ SkipWhile(s, b + 1, WsSet) <= Len(s)
    THEN SkipWhile(s, b + 1, WsSet)
    ELSE 0

\* (?:\n|^)\s*(\d+)[.)]\s+ tried where a line starts (position q): the
\* position of the item's first character.
ItemStart(s, q, head) == AfterMark(s, HeadMark(s, SkipWhile(s, q, WsSet), head))

LineStarts(s, from) == {q \in from..Len(s) : q = 1 \/ Ch(s, q - 1) = "\n"}

\* The exec loop over the g-flagged pattern: the items (match[2]) found from
\* position `from` on, in order.
RECURSIVE ItemsFrom(_, _, _, _)
ItemAt(s, d, e, head, stops) ==
    <<SubSeq(s, d, e)>> \o ItemsFrom(s, e + 2, head, stops)

FirstItem(s, q, head, stops) ==
    ItemAt(s, ItemStart(s, q, head), ItemEnd(s, LineEnd(s, ItemStart(s, q, head)), stops),
           head, stops)

ItemsFrom(s, from, head, stops) ==
    IF {q \in LineStarts(s, from) : ItemStart(s, q, head) > 0} = {} THEN <<>>
    ELSE FirstItem(s, Least({q \in LineStarts(s, from) : ItemStart(s, q, head) > 0}),
                   head, stops)

\* Lines 1126-1131: item.trim(), line breaks and whitespace runs to one space.
OneLine(item) == Trim(CollapseWs(item))

HasAny(lower, phrases) == \E k \in phrases : Includes(lower, k)

\* Lines 1138-1159: recommendation language of strategy 1.
Strategy1Language(lower) ==
    \/ HasAny(lower, {"administration should", "value of", "positive interventions",
                      "freshmen need", "peer mentoring", "more studies",
                      "study on leadership", "further studies", "longitudinal study",
                      "qualitative study", "research on the impact",
                      "effects of freshman academies"})
    \/ HasAny(lower, {"should", "recommend", "suggest", "need to", "would benefit"})
    \/ StartsWith(lower, "to ") \/ StartsWith(lower, "the study should")

MinItemLen == 20
MaxItemLen == 400

\* Lines 1133-1161
Strategy1Keeps(item) ==
    Len(item) >= MinItemLen /\ Len(item) <= MaxItemLen /\ Strategy1Language(ToLower(item))

OneLineAll(items) == [k \in 1..Len(items) |-> OneLine(items[k])]
FormatAll(items) == [k \in 1..Len(items) |-> FormatRec(items[k])]

\* Lines 1118-1171: strategy 1, numbered items.
Strategy1(cleanedText) ==
    FormatAll(FilterSeq(OneLineAll(ItemsFrom(cleanedText, 1, "numbered",
                                             {"numbered", "lettered", "caps"})),
                        Strategy1Keeps))

\* Lines 1173-1206: strategy 2, lettered items, when fewer than five
\* recommendations were found.
Strategy2Threshold == 5
Strategy2MinLen == 20
Strategy2MaxLen == 300

Strategy2Keeps(item) ==
    /\ Len(item) > Strategy2MinLen /\ Len(item) < Strategy2MaxLen
    /\ HasAny(ToLower(item), {"longitudinal study", "qualitative study",
                              "research on the impact", "should", "would be interesting"})

Strategy2(recommendations, cleanedText) ==
    IF Len(recommendations) < Strategy2Threshold
    THEN recommendations
         \o FormatAll(FilterSeq(OneLineAll(ItemsFrom(cleanedText, 1, "lettered", {"lettered"})),
                                Strategy2Keeps))
    ELSE recommendations

\* Words separated by \s+, matched in the lower-cased text from position i:
\* the position after the last word, 0 when they do not match.
RECURSIVE MatchWords(_, _, _, _)
NextWord(lower, j, words, k) ==
    IF k = Len(words) THEN j
    ELSE IF j <= Len(lower) /\ Ch(lower, j) \in WsSet
         THEN MatchWords(lower, SkipWhile(lower, j, WsSet), words, k + 1)
         ELSE 0

MatchWords(lower, i, words, k) ==
    IF i + Len(words[k]) - 1 <= Len(lower) /\ SubSeq(lower, i, i + Len(words[k]) - 1) = words[k]
    THEN NextWord(lower, i + Len(words[k]), words, k)
    ELSE 0

Greatest(S) == CHOOSE x \in S : \A y \in S : x >= y

\* The last line break between positions a and b, 0 when there is none.
LastLineBreak(s, a, b) == Greatest({0} \cup {k \in a..b : Ch(s, k) = "\n"})

\* \s*[:\-]?\s*\n after a heading whose last word ends before r: the
\* position of the closing line break, 0 when the pattern fails.  r1 is the
\* end of the whitespace after the heading, r2 the end of the whitespace
\* after a colon or dash at r1.
HeadingClose(s, r, r1, r2) ==
    IF r1 <= Len(s) /\ Ch(s, r1) \in {":", "-"} /\ LastLineBreak(s, r1 + 1, r2 - 1) > 0
    THEN LastLineBreak(s, r1 + 1, r2 - 1)
    ELSE LastLineBreak(s, r, r1 - 1)

HeadingCloseFrom(s, r) ==
    IF r = 0 THEN 0
    ELSE HeadingClose(s, r, SkipWhile(s, r, WsSet), SkipWhile(s, SkipWhile(s, r, WsSet) + 1, WsSet))

\* Lines 1214-1215: /recommendations?\s+for\s+<name>\s*[:\-]?\s*\n/i tried at
\* position i.
SectionHeadingAt(lower, i, name) ==
    IF MatchWords(lower, i, <<"recommendations", "for", name>>, 1) > 0
    THEN HeadingCloseFrom(lower, MatchWords(lower, i, <<"recommendations", "for", name>>, 1))
    ELSE HeadingCloseFrom(lower, MatchWords(lower, i, <<"recommendation", "for", name>>, 1))

\* Line 1226: where the next section starts in the remaining text.
NextSectionWords ==
    {"recommendation", "recommendations", "suggestion", "suggestions", "conclusion",
     "conclusions", "reference", "references", "bibliography"}

NextSectionAt(lower, i) ==
    \E w \in NextSectionWords :
        /\ i + Len(w) <= Len(lower)
        /\ SubSeq(lower, i, i + Len(w) - 1) = w
        /\ Ch(lower, i + Len(w)) \in WsSet

SectionChars == 2000

\* Lines 1225-1230: sectionText
SectionText(remainingText, lower) ==
    IF \E i \in 1..Len(lower) : NextSectionAt(lower, i)
    THEN Take(remainingText, Least({i \in 1..Len(lower) : NextSectionAt(lower, i)}) - 1)
    ELSE Take(remainingText, SectionChars)

Strategy3MinLen == 20
Strategy3MaxLen == 400

\* Lines 1243-1252
Strategy3Keeps(item) ==
    /\ Len(item) > Strategy3MinLen /\ Len(item) < Strategy3MaxLen
    /\ \E k \in 1..Len(item) : Ch(item, k) \notin UpperSet \cup WsSet
    /\ HasAny(ToLower(item), {"should", "need", "would be", "recommend", "suggest"})

\* Lines 1232-1263: the numbered items of one section text.
SectionItems(sectionText) ==
    FormatAll(FilterSeq(OneLineAll(ItemsFrom(sectionText, 1, "numbered", {"numbered"})),
                        Strategy3Keeps))

RemainingText(cleanedText, sectionStart) == SubSeq(cleanedText, sectionStart, Len(cleanedText))

SectionFrom(remainingText) == SectionItems(SectionText(remainingText, ToLower(remainingText)))

\* Lines 1218-1265 for one section.
SectionRecs(cleanedText, lower, name) ==
    IF \E i \in 1..Len(lower) : SectionHeadingAt(lower, i, name) > 0
    THEN SectionFrom(RemainingText(cleanedText,
             SectionHeadingAt(lower, Least({i \in 1..Len(lower) :
                                               SectionHeadingAt(lower, i, name) > 0}), name) + 1))
    ELSE <<>>

Strategy3Threshold == 3

\* Lines 1208-1266: strategy 3, the practice and research sections, when
\* fewer than three recommendations were found.
Strategy3(recommendations, cleanedText) ==
    IF Len(recommendations) < Strategy3Threshold
    THEN recommendations \o SectionRecs(cleanedText, ToLower(cleanedText), "practice")
                         \o SectionRecs(cleanedText, ToLower(cleanedText), "research")
    ELSE recommendations

Terminators == {".", "!", "?"}

\* <words>[^.!?]+[.!?] tried at position i: the position of the closing
\* terminator, 0 when the pattern fails.  p is the position after the words.
PhraseClose(s, p) ==
    IF p > 0 /\ p <= Len(s) /\ Ch(s, p) \notin Terminators /\ FirstOf(s, p, Terminators) <= Len(s)
    THEN FirstOf(s, p, Terminators)
    ELSE 0

PhraseAt(s, lower, i, words) == PhraseClose(s, MatchWords(lower, i, words, 1))

\* matchAll over one g-flagged phrase pattern: the matches from position
\* `from` on, in order.
RECURSIVE PhraseMatches(_, _, _, _)
PhraseMatchAt(s, lower, i, t, words) ==
    <<SubSeq(s, i, t)>> \o PhraseMatches(s, lower, t + 1, words)

PhraseFirst(s, lower, i, words) == PhraseMatchAt(s, lower, i, PhraseAt(s, lower, i, words), words)

PhraseMatches(s, lower, from, words) ==
    IF {i \in from..Len(s) : PhraseAt(s, lower, i, words) > 0} = {} THEN <<>>
    ELSE PhraseFirst(s, lower, Least({i \in from..Len(s) : PhraseAt(s, lower, i, words) > 0}), words)

\* Lines 1273-1289
research2Patterns ==
    << <<"administration", "should", "examine", "the", "process">>,
       <<"the", "value", "of", "advisory", "programs">>,
       <<"positive", "interventions">>,
       <<"all", "freshmen", "need", "multiple", "opportunities">>,
       <<"the", "value", "of", "peer", "mentoring">>,
       <<"more", "studies", "on", "the", "effects">>,
       <<"a", "study", "on", "leadership", "best", "practices">>,
       <<"further", "studies", "involving">>,
       <<"it", "would", "be", "particularly", "interesting">>,
       <<"a", "qualitative", "study", "could", "be", "conducted">>,
       <<"research", "on", "the", "impact">>,
       <<"the", "effects", "of", "freshman", "academies">> >>

\* Lines 1321-1335
allPatterns ==
    << <<"to", "improve", "this", "action", "research">>,
       <<"it", "would", "be", "beneficial", "for", "students">>,
       <<"to", "improve", "curriculum", "barriers">>,
       <<"the", "study", "should", "be", "performed">>,
       <<"it", "is", "better", "if", "different", "kinds", "of", "plants">>,
       <<"to", "add", "another", "sensors", "and", "battery">>,
       <<"to", "add", "shade", "using", "thermochromic">> >>

\* The matches of all the patterns, pattern by pattern.
RECURSIVE AllMatches(_, _, _, _)
AllMatches(s, lower, patterns, k) ==
    IF k > Len(patterns) THEN <<>>
    ELSE PhraseMatches(s, lower, 1, patterns[k]) \o AllMatches(s, lower, patterns, k + 1)

Strategy4Threshold == 5
Strategy4MinLen == 25
Strategy4MaxLen == 350
DuplicatePrefix == 40

\* Lines 1296-1310: one match of strategy 4; a match is a duplicate when a
\* recommendation contains its first 40 characters, case ignored.
Strategy4Add(recommendations, item) ==
    IF /\ Len(item) > Strategy4MinLen /\ Len(item) < Strategy4MaxLen
       /\ \A k \in 1..Len(recommendations) :
              ~Includes(ToLower(recommendations[k]), Take(ToLower(item), DuplicatePrefix))
    THEN Append(recommendations, FormatRec(item))
    ELSE recommendations

Strategy5Threshold == 3
Strategy5MinLen == 20
Strategy5MaxLen == 300

\* Lines 1342-1355: one match of strategy 5; a match is a duplicate when it
\* equals a recommendation, case ignored.
Strategy5Add(recommendations, item) ==
    IF /\ Len(item) > Strategy5MinLen /\ Len(item) < Strategy5MaxLen
       /\ \A k \in 1..Len(recommendations) : ToLower(recommendations[k]) # ToLower(item)
    THEN Append(recommendations, FormatRec(item))
    ELSE recommendations

\* The loops of lines 1291-1313 and 1337-1358 over the matches.
RECURSIVE AddMatches(_, _, _, _)
AddMatches(recommendations, items, k, strategy) ==
    IF k > Len(items) THEN recommendations
    ELSE AddMatches(IF strategy = 4 THEN Strategy4Add(recommendations, Trim(items[k]))
                    ELSE Strategy5Add(recommendations, Trim(items[k])),
                    items, k + 1, strategy)

\* Lines 1268-1314: strategy 4, when fewer than five recommendations were found.
Strategy4(recommendations, cleanedText) ==
    IF Len(recommendations) < Strategy4Threshold
    THEN AddMatches(recommendations,
                    AllMatches(cleanedText, ToLower(cleanedText), research2Patterns, 1), 1, 4)
    ELSE recommendations

\* Lines 1316-1359: strategy 5, when fewer than three recommendations were found.
Strategy5(recommendations, cleanedText) ==
    IF Len(recommendations) < Strategy5Threshold
    THEN AddMatches(recommendations,
                    AllMatches(cleanedText, ToLower(cleanedText), allPatterns, 1), 1, 5)
    ELSE recommendations

\* Lines 1118-1359: the recommendations the five local strategies find.
LocalStrategies(cleanedText) ==
    Strategy5(Strategy4(Strategy3(Strategy2(Strategy1(cleanedText), cleanedText),
                                  cleanedText), cleanedText), cleanedText)

\* The document texts of recommendations mode are built from these pieces.
RecPieces ==
    { "1. Schools should adopt the drip schedule.",
      "2) teachers should record the yields weekly",
      "\n", " for every plot",
      "a. growers should test the soil twice",
      "Recommendations for Practice 79 ",
      "The study should be performed over a full season.",
      "The study should be performed over a full season!" }

\* The caller assembles the document text, piece by piece.
RecsAppend(p) ==
    /\ fn.pc = "recs_in"
    /\ fn.n < MaxRecPieces
    /\ fn' = [fn EXCEPT !.text = @ \o p, !.n = @ + 1]
    /\ UNCHANGED <<hfPc, tries, attempt, delay, posts, sleeps, timerArmed,
                   elapsed, outcomes, events, hfResult, req>>

NoRecs == [candidates |-> <<>>, final |-> <<>>]

RecsOut(recommendations) ==
    [candidates |-> recommendations, final |-> FinalRecommendations(recommendations)]

\* Lines 1090-1504 with no provider token (strategy 6 is skipped): the
\* candidates of the local strategies and the final list.
RecsOf(fullText) == IF fullText = "" THEN NoRecs ELSE RecsOut(LocalStrategies(CleanedText(fullText)))

\* POST /abstract-tools with mode "recommendations" and no provider token.
RecsApply ==
    /\ fn.pc = "recs_in"
    /\ fn' = [fn EXCEPT !.pc = "recs_out", !.out = RecsOf(Trim(fn.text))]
    /\ UNCHANGED <<hfPc, tries, attempt, delay, posts, sleeps, timerArmed,
                   elapsed, outcomes, events, hfResult, req>>

(***************************************************************************)
(* extractReferencesFromText (lines 818-849) and refscan mode (1551-1559). *)
(* The bullet character of newEntryRe is written "*".                      *)
(***************************************************************************)
\* Line 819: (fullText || "").replace(/\r/g, ""); fullText is a string,
\* null or undefined.
StripCR(s) == CatStr(LAMBDA x, i : IF Ch(x, i) = "\r" THEN "" ELSE Ch(x, i), s, 1, Len(s))

OrEmpty(v) == IF v.t = "str" THEN v.s ELSE ""

\* Line 821: /(references|bibliography)\s*[:\-]?\s*/i
HeaderWords == {"references", "bibliography"}

HeaderWordAt(lower, i, w) ==
    i + Len(w) - 1 <= Len(lower) /\ SubSeq(lower, i, i + Len(w) - 1) = w

HeaderAt(lower, i) == \E w \in HeaderWords : HeaderWordAt(lower, i, w)

\* The position after the header word that starts at i.
HeaderWordEnd(lower, i) == i + Len(CHOOSE w \in HeaderWords : HeaderWordAt(lower, i, w))

\* [:\-]?\s* from position p on: the position after it.
HeaderClose(text, p) ==
    IF p <= Len(text) /\ Ch(text, p) \in {":", "-"} THEN SkipWhile(text, p + 1, WsSet) ELSE p

\* Line 824: start, for the header that starts at i.
TailStart(text, lower, i) ==
    HeaderClose(text, SkipWhile(text, HeaderWordEnd(lower, i), WsSet))

TailChars == 20000

\* Line 826: tail
ScannedTail(text, start) == Take(SubSeq(text, start, Len(text)), TailChars)

\* s.split("\n"), from position `from` on.
RECURSIVE LinesFrom(_, _)
LinesFrom(s, from) ==
    IF FirstOf(s, from, {"\n"}) > Len(s) THEN <<SubSeq(s, from, Len(s))>>
    ELSE <<SubSeq(s, from, FirstOf(s, from, {"\n"}) - 1)>>
         \o LinesFrom(s, FirstOf(s, from, {"\n"}) + 1)

TrimAll(lines) == [k \in 1..Len(lines) |-> Trim(lines[k])]

\* Line 829: lines
TailLines(tail) == FilterSeq(TrimAll(LinesFrom(tail, 1)), NonEmpty)

\* Line 834: newEntryRe, /^(\[\d+\]|\d+\.\s|*\s|-\s|[A-Z].+\(\d{4}\))/
YearAt(ln, k) ==
    /\ k + 5 <= Len(ln) /\ Ch(ln, k) = "(" /\ Ch(ln, k + 5) = ")"
    /\ \A d \in 1..4 : Ch(ln, k + d) \in DigitSet

\* A variant of newEntryRe whose bullet and dash need no whitespace after them.
NewEntryBare(ln) ==
    \/ /\ Ch(ln, 1) = "[" /\ SkipWhile(ln, 2, DigitSet) > 2
       /\ SkipWhile(ln, 2, DigitSet) <= Len(ln) /\ Ch(ln, SkipWhile(ln, 2, DigitSet)) = "]"
    \/ /\ SkipWhile(ln, 1, DigitSet) > 1 /\ SkipWhile(ln, 1, DigitSet) < Len(ln)
       /\ Ch(ln, SkipWhile(ln, 1, DigitSet)) = "."
       /\ Ch(ln, SkipWhile(ln, 1, DigitSet) + 1) \in WsSet
    \/ Ch(ln, 1) \in {"*", "-"}
    \/ Ch(ln, 1) \in UpperSet /\ \E k \in 3..Len(ln) : YearAt(ln, k)

NewEntry(ln) ==
    \/ /\ Ch(ln, 1) = "[" /\ SkipWhile(ln, 2, DigitSet) > 2
       /\ SkipWhile(ln, 2, DigitSet) <= Len(ln) /\ Ch(ln, SkipWhile(ln, 2, DigitSet)) = "]"
    \/ /\ SkipWhile(ln, 1, DigitSet) > 1 /\ SkipWhile(ln, 1, DigitSet) < Len(ln)
       /\ Ch(ln, SkipWhile(ln, 1, DigitSet)) = "."
       /\ Ch(ln, SkipWhile(ln, 1, DigitSet) + 1) \in WsSet
    \/ Len(ln) >= 2 /\ Ch(ln, 1) \in {"*", "-"} /\ Ch(ln, 2) \in WsSet
    \/ Ch(ln, 1) \in UpperSet /\ \E k \in 3..Len(ln) : YearAt(ln, k)

\* Lines 835-844: one line, after those before it.
MergeLine(before, ln) ==
    IF before.buf = "" THEN [entries |-> before.entries, buf |-> ln]
    ELSE IF NewEntry(ln)
         THEN [entries |-> Append(before.entries, Trim(before.buf)), buf |-> ln]
         ELSE [entries |-> before.entries, buf |-> before.buf \o " " \o ln]

RECURSIVE MergeLines(_, _)
MergeLines(lines, n) ==
    IF n = 0 THEN [entries |-> <<>>, buf |-> ""]
    ELSE MergeLine(MergeLines(lines, n - 1), lines[n])

\* Line 845
Flush(merged) ==
    IF merged.buf # "" THEN Append(merged.entries, Trim(merged.buf)) ELSE merged.entries

\* Line 848: e.replace(/\s{2,}/g, " "): a run of two or more whitespace
\* characters becomes one space, a single whitespace character stays.
CollapseRuns(e) ==
    CatStr(LAMBDA x, i : IF ~IsWs(Ch(x, i)) THEN Ch(x, i)
                         ELSE IF i > 1 /\ IsWs(Ch(x, i - 1)) THEN ""
                         ELSE IF i < Len(x) /\ IsWs(Ch(x, i + 1)) THEN " "
                         ELSE Ch(x, i),
           e, 1, Len(e))

CollapseEach(entries) == [k \in 1..Len(entries) |-> CollapseRuns(entries[k])]

\* Lines 829-848, from the tail on.
EntriesOf(lines) == CollapseEach(Flush(MergeLines(lines, Len(lines))))

\* A variant of the scanner that reads the whole text when it finds no header.
ReferencesInWhole(text, lower) ==
    IF \A i \in 1..Len(lower) : ~HeaderAt(lower, i) THEN EntriesOf(TailLines(text))
    ELSE EntriesOf(TailLines(ScannedTail(text,
             TailStart(text, lower, Least({i \in 1..Len(lower) : HeaderAt(lower, i)})))))

\* Lines 821-848, on the text without carriage returns.
ReferencesIn(text, lower) ==
    IF \A i \in 1..Len(lower) : ~HeaderAt(lower, i) THEN <<>>
    ELSE EntriesOf(TailLines(ScannedTail(text,
             TailStart(text, lower, Least({i \in 1..Len(lower) : HeaderAt(lower, i)})))))

ScanText(text) == ReferencesIn(text, ToLower(text))

extractReferencesFromText(fullText) == ScanText(StripCR(OrEmpty(fullText)))

\* Line 955: the destructuring default of abstract applies to undefined only.
AbstractOf(v) == IF v.t = "undef" THEN JStr("") ELSE v

\* Lines 1551-1558: the answer of refscan mode; line 1553 reads pdfText || abstract.
RefscanAnswer(refs) == [status |-> 200, ok |-> TRUE, count |-> Len(refs), items |-> refs]

Refscan(pdfText, abstract) ==
    RefscanAnswer(extractReferencesFromText(OrElse(JStr(pdfText), AbstractOf(abstract))))

\* The document texts of refscan mode are built from these pieces.
RefPieces ==
    { "References\n[1] Doe", "see Bibliography: Smith, J. (2020). Title.",
      "Intro text.", "\n wrapped \r\n", "\n2. Roe  K.", "\n-based method",
      "\n- Lee", "\n* Kim" }

\* The caller assembles the document text, piece by piece.
RefsAppend(p) ==
    /\ fn.pc = "refs_in"
    /\ fn.n < MaxRefPieces
    /\ fn' = [fn EXCEPT !.text = @ \o p, !.n = @ + 1]
    /\ UNCHANGED <<hfPc, tries, attempt, delay, posts, sleeps, timerArmed,
                   elapsed, outcomes, events, hfResult, req>>

NoAnswer == [status |-> 0, ok |-> FALSE, count |-> 0, items |-> <<>>]

\* POST /abstract-tools with mode "refscan": the document text comes as the
\* text of the PDF (fromPdf) or as the abstract; without a PDF the abstract
\* may also be null or missing.
RefsApply(fromPdf, abstract) ==
    /\ fn.pc = "refs_in"
    /\ fn' = [fn EXCEPT !.pc = "refs_out", !.pdf = fromPdf, !.given = abstract,
                        !.out = Refscan(IF fromPdf THEN fn.text ELSE "", abstract)]
    /\ UNCHANGED <<hfPc, tries, attempt, delay, posts, sleeps, timerArmed,
                   elapsed, outcomes, events, hfResult, req>>

(***************************************************************************)
(* Citations mode: toSentenceCase and normalizeYear (lines 798-809), the   *)
(* three citation strings and the answer (lines 985-986, 1561-1589).       *)
(***************************************************************************)
\* Line 801, /(^\w)|([.!?]\s+\w)/g on the lower-cased string: the word
\* character at position i is the first character, or follows a whitespace
\* run that follows ".", "!" or "?".
AfterStop(lower, i) ==
    /\ i > 2 /\ IsWs(Ch(lower, i - 1))
    /\ Greatest({m \in 1..(i - 1) : ~IsWs(Ch(lower, m))} \cup {0}) > 0
    /\ Ch(lower, Greatest({m \in 1..(i - 1) : ~IsWs(Ch(lower, m))} \cup {0})) \in {".", "!", "?"}

SentenceStart(lower, i) == IsWordCh(Ch(lower, i)) /\ (i = 1 \/ AfterStop(lower, i))

UpperStarts(lower) ==
    CatStr(LAMBDA x, i : IF SentenceStart(x, i) THEN UpperCh(Ch(x, i)) ELSE Ch(x, i),
           lower, 1, Len(lower))

\* Lines 798-804
toSentenceCase(s) == Trim(CollapseWs(UpperStarts(ToLower(s))))

\* Line 807: the positions at which \d{4} matches.
FourDigits(y) == {i \in 1..(Len(y) - 3) : \A k \in 0..3 : Ch(y, i + k) \in DigitSet}

\* Lines 806-809: y is the year as a string, "" when it is missing.
normalizeYear(y) ==
    IF FourDigits(y) = {} THEN "n.d."
    ELSE SubSeq(y, Least(FourDigits(y)), Least(FourDigits(y)) + 3)

\* s.replace(/[^a-z0-9]/g, "")
KeyChars(s) ==
    CatStr(LAMBDA x, i : IF Ch(x, i) \in LowerSet \cup DigitSet THEN Ch(x, i) ELSE "",
           s, 1, Len(s))

\* Lines 1570-1571
BibKey(apaList, yr) ==
    KeyChars(ToLower(SplitComma(IF apaList[1] = "" THEN "Author" ELSE apaList[1])[1]))
    \o (IF yr = "n.d." THEN "nd" ELSE yr)

\* Lines 1572-1578
Bibtex(bibkey, title, bibtexAuthor, yr) ==
    Join(<< "@article{" \o bibkey \o ",",
            "  title={" \o (IF title = "" THEN "Untitled study" ELSE title) \o "},",
            "  author={" \o (IF bibtexAuthor = "" THEN "Author" ELSE bibtexAuthor) \o "},",
            "  year={" \o yr \o "}",
            "}" >>, "\n")

\* Lines 1566-1567
Apa(apaList, yr, titleSentence) ==
    Join(apaList, ", ") \o " (" \o yr \o "). " \o titleSentence \o "."

Ieee(ieeeList, yr, titleSentence) ==
    Join(ieeeList, ", ") \o ", \"" \o titleSentence \o ",\" " \o yr \o "."

\* Line 1581; each grave accent of the code fence is written as an apostrophe.
CitationsText(apa, ieee, bibtex) ==
    "### Citations\n**APA**\n> " \o apa \o "\n\n**IEEE**\n> " \o ieee
    \o "\n\n**BibTeX**\n'''bibtex\n" \o bibtex \o "\n'''"

\* Lines 1583-1589: the answer, for the values of lines 982-986.
CitationsAnswer(apaList, apa, ieee, bibtex, refs) ==
    [apaList |-> apaList, text |-> CitationsText(apa, ieee, bibtex),
     apa |-> apa, ieee |-> ieee, bibtex |-> bibtex, references |-> refs]

CitationsWith(apaList, bibtexAuthor, yr, title, refs) ==
    CitationsAnswer(apaList,
                    Apa(apaList, yr, toSentenceCase(IF title = "" THEN "Untitled study" ELSE title)),
                    Ieee(ToIEEEList(apaList), yr,
                         toSentenceCase(IF title = "" THEN "Untitled study" ELSE title)),
                    Bibtex(BibKey(apaList, yr), title, bibtexAuthor, yr),
                    refs)

\* POST /abstract-tools with mode "citations" (or "self-cite").
Citations(author, title, year, pdfText) ==
    CitationsWith(ParseAuthorsToAPAList(author), ToBibtexAuthor(author),
                  normalizeYear(year), title, extractReferencesFromText(JStr(pdfText)))

\* The meta fields and document texts of the requests.
CiteAuthors == {"Dela Cruz, Juan", "mARIA"}
CiteMetas == {[title |-> "effects of x on y", year |-> "2023"], [title |-> "", year |-> ""]}
CiteDocs == {"", "References\n[1] Doe"}

\* A citations request is served; the requests served so far are kept with
\* their answers.
CitationsRequest(author, title, year, pdfText) ==
    /\ fn.pc = "citations"
    /\ Len(fn.runs) < MaxRuns
    /\ fn' = [fn EXCEPT !.runs = Append(@, [author |-> author, title |-> title,
                                            year |-> year, pdfText |-> pdfText]
                                           @@ Citations(author, title, year, pdfText))]
    /\ UNCHANGED <<hfPc, tries, attempt, delay, posts, sleeps, timerArmed,
                   elapsed, outcomes, events, hfResult, req>>

(***************************************************************************)
(* POST /abstract-tools, several requests being handled at once (lines     *)
(* 946-1597).  Every variable of the handler is declared inside it (lines  *)
(* 955-984) and every regular expression is a literal inside it, so each   *)
(* invocation has its own; the handler gives way at its awaits (the        *)
(* document read of line 976, the callHF calls).                           *)
(***************************************************************************)
Slots == {1, 2}

ToolsRoutes == {"tools_tldr", "tools_recs", "tools_methods"}

\* The abstracts sent with the requests.
ToolsTexts ==
    { LongRun \o LongRun \o LongRun,
      "1. Schools should adopt the drip schedule." }

\* What callHF hands back to the handlers.
ToolsResults ==
    { Resolved("error", "HF 503: model busy/starting"), Resolved("throw", "TypeError"),
      Resolved("text", "TL;DR: Yields improved by a fifth.") }

\* A variant in which every invocation reads the variables of the first.
ModuleScope(i) == 1

\* Lines 955-984: the invocation whose variables the handler of request i reads.
ScopeOf(i) == i

NoRequest == Request("idle", "", FALSE, "", FALSE, <<>>, <<>>, NoResp)

\* Lines 955-979: the request as the handler holds it while it awaits the
\* document.
ToolsRequest(route, token, source) ==
    Request("read", route, token, source, FALSE, <<>>, <<>>, NoResp)

\* Lines 1090-1359: recommendations mode up to strategy 5; fullText.length
\* > 200 is the test of line 1362.
WithLocal(r, fullText) ==
    [r EXCEPT !.long = Len(fullText) > 200, !.local = RecsOf(fullText).candidates]

\* Lines 990-1543: the handler runs from the document read to its first
\* callHF call or to its response.
ToolsStart(r) ==
    CASE r.route = "tools_methods" ->
           Respond(r, Resp(200, "methods", Join(Checklist(Trim(r.source)), "\n")))
      [] r.route = "tools_recs" -> HandlerStart(WithLocal(r, Trim(r.source)))
      [] OTHER -> HandlerStart(r)

InFlight(r) == r.pc \in {"read"} \cup Awaiting

\* The handler of request i takes a step while another request is in flight.
Overlaps(f, i) == [f.overlap EXCEPT ![i] = @ \/ \E k \in Slots \ {i} : InFlight(f.slots[k])]

\* A request arrives: line 955.
ToolsArrive(i, route, token, source) ==
    /\ fn.pc = "tools"
    /\ fn.slots[i].pc = "idle"
    /\ fn' = [fn EXCEPT !.sent[i] = [route |-> route, token |-> token, source |-> source],
                        !.slots[i] = ToolsRequest(route, token, source),
                        !.overlap[i] = FALSE]
    /\ UNCHANGED <<hfPc, tries, attempt, delay, posts, sleeps, timerArmed,
                   elapsed, outcomes, events, hfResult, req>>

\* The document read of line 976 settles; the handler runs on.
ToolsDispatch(i) ==
    /\ fn.pc = "tools"
    /\ fn.slots[ScopeOf(i)].pc = "read"
    /\ fn' = [fn EXCEPT !.slots[i] = ToolsStart(fn.slots[ScopeOf(i)]),
                        !.overlap = Overlaps(fn, i)]
    /\ UNCHANGED <<hfPc, tries, attempt, delay, posts, sleeps, timerArmed,
                   elapsed, outcomes, events, hfResult, req>>

\* The callHF call the handler of request i awaits settles; it runs on.
ToolsReturns(i, result) ==
    /\ fn.pc = "tools"
    /\ fn.slots[ScopeOf(i)].pc \in Awaiting
    /\ fn' = [fn EXCEPT !.slots[i] = HandlerResume(fn.slots[ScopeOf(i)], result),
                        !.overlap = Overlaps(fn, i)]
    /\ UNCHANGED <<hfPc, tries, attempt, delay, posts, sleeps, timerArmed,
                   elapsed, outcomes, events, hfResult, req>>

ReqIdle == req = [pc |-> "idle"]
FnIdle == fn = [pc |-> "idle"]

InitHF == HFIdle /\ ReqIdle /\ FnIdle

NextHF ==
    \/ \E t \in 0..MaxTries : CallHF(t)
    \/ FetchNetworkError
    \/ TimerFires
    \/ \E s \in Statuses : FetchResolves(s)
    \/ \E d \in JsonBodies : BodyArrives(TRUE, d)
    \/ BodyArrives(FALSE, Body("undef", NoFields, <<>>))
    \/ SleepDone
    \/ Tick

SpecHF == InitHF /\ [][NextHF]_vars

Spec == SpecHF

InitTldr ==
    /\ HFIdle /\ ReqIdle
    /\ fn = [pc |-> "tldr_in", text |-> "", n |-> 0, out |-> ""]

NextTldr ==
    \/ \E p \in TldrPieces : TldrAppend(p)
    \/ TldrApply
    \/ SummaryApply

SpecTldr == InitTldr /\ [][NextTldr]_vars

InitReq == HFIdle /\ ReqIdle /\ FnIdle

NextReq ==
    \/ \E route \in Routes, token \in BOOLEAN, source \in SampleTexts,
          long \in BOOLEAN, local \in LocalCandidates :
            Receive(route, token, source, long, local)
    \/ \E result \in CallResults : HFReturns(result)

SpecReq == InitReq /\ [][NextReq]_vars

InitMethods ==
    /\ HFIdle /\ ReqIdle
    /\ fn = [pc |-> "methods_in", text |-> "", n |-> 0, out |-> "", lines |-> <<>>]

NextMethods ==
    \/ \E p \in MethodsPieces : MethodsAppend(p)
    \/ MethodsApply

SpecMethods == InitMethods /\ [][NextMethods]_vars

NoCitations == [apaList |-> <<>>, ieeeList |-> <<>>, bibtexAuthor |-> ""]

InitCite ==
    /\ HFIdle /\ ReqIdle
    /\ fn = [pc |-> "cite_in", text |-> "", n |-> 0, out |-> NoCitations]

NextCite ==
    \/ \E p \in AuthorPieces : CiteAppend(p)
    \/ CiteApply

SpecCite == InitCite /\ [][NextCite]_vars

InitRecs ==
    /\ HFIdle /\ ReqIdle
    /\ fn = [pc |-> "recs_in", text |-> "", n |-> 0, out |-> NoRecs]

NextRecs ==
    \/ \E p \in RecPieces : RecsAppend(p)
    \/ RecsApply

SpecRecs == InitRecs /\ [][NextRecs]_vars

InitRefs ==
    /\ HFIdle /\ ReqIdle
    /\ fn = [pc |-> "refs_in", text |-> "", n |-> 0, pdf |-> FALSE, given |-> Undef,
             out |-> NoAnswer]

NextRefs ==
    \/ \E p \in RefPieces : RefsAppend(p)
    \/ RefsApply(TRUE, Undef)
    \/ \E abstract \in {Undef, JNull, JStr(fn.text)} : RefsApply(FALSE, abstract)

SpecRefs == InitRefs /\ [][NextRefs]_vars

NoneSent == [route |-> "", token |-> FALSE, source |-> ""]

InitTools ==
    /\ HFIdle /\ ReqIdle
    /\ fn = [pc |-> "tools", sent |-> [i \in Slots |-> NoneSent],
             slots |-> [i \in Slots |-> NoRequest], overlap |-> [i \in Slots |-> FALSE]]

NextTools ==
    \/ \E i \in Slots, route \in ToolsRoutes, token \in BOOLEAN, source \in ToolsTexts :
          ToolsArrive(i, route, token, source)
    \/ \E i \in Slots : ToolsDispatch(i)
    \/ \E i \in Slots, result \in ToolsResults : ToolsReturns(i, result)

SpecTools == InitTools /\ [][NextTools]_vars

InitCitations ==
    /\ HFIdle /\ ReqIdle
    /\ fn = [pc |-> "citations", runs |-> <<>>]

NextCitations ==
    \E author \in CiteAuthors, meta \in CiteMetas, pdfText \in CiteDocs :
       CitationsRequest(author, meta.title, meta.year, pdfText)

SpecCitations == InitCitations /\ [][NextCitations]_vars

(***************************************************************************)
(* Claims about callHF (checked under SpecHF).                             *)
(***************************************************************************)
HFReturned == hfPc \in {"done", "thrown"}
LastOutcome == outcomes[Len(outcomes)]

\* The claims' own reading of "a retryable failure": a network failure or a
\* timeout abort, or a response with status 503 or 429.
RetryableFailure(o) ==
    \/ o.kind \in {"network", "abort"}
    \/ o.kind = "status" /\ o.status \in {503, 429}

AllRetryable(n) == \A i \in 1..n : RetryableFailure(outcomes[i])

\* events is POST, sleep, POST, ..., POST: one sleep between consecutive POSTs.
Alternating(ev) ==
    /\ Len(ev) % 2 = 1
    /\ \A i \in 1..Len(ev) : ev[i] = (IF i % 2 = 1 THEN "post" ELSE "sleep")

\* C1: callHF never throws or rejects: whatever the provider does and for
\* every tries >= 0, a call that has ended has resolved to exactly one of
\* Success {text} or Failure {error}.
C1_NeverThrows ==
    /\ hfPc # "thrown"
    /\ hfPc = "done" => hfResult.tag \in {"text", "error"}

\* C2: a response with an error status other than 503 and 429, or with a
\* body that is not valid JSON, makes the call end with Failure on that very
\* attempt (no further POST), never with Success, whatever its JSON body;
\* stated of the calls that return (C1 is about the calls that throw).
C2_ErrorStatusFails ==
    (/\ hfPc = "done"
     /\ Len(outcomes) > 0
     /\ LastOutcome.kind = "status"
     /\ LastOutcome.body \in {"nonjson", "json", "wellformed"}
     /\ \/ LastOutcome.status \in {400, 401, 404, 500}
        \/ LastOutcome.body = "nonjson")
    => /\ hfResult.tag = "error"
       /\ posts = Len(outcomes)

\* C3: if every attempt ended in a retryable failure, then for tries >= 1 the
\* call returns Failure after exactly `tries` POSTs, no sleep follows the
\* last attempt, and the reason names the class of the last failure.
C3_ExhaustedFails ==
    (HFReturned /\ tries >= 1 /\ AllRetryable(Len(outcomes)))
    => /\ hfPc = "done"
       /\ hfResult.tag = "error"
       /\ posts = tries
       /\ Len(outcomes) = tries
       /\ Len(sleeps) = tries - 1
       /\ Alternating(events)
       /\ LastOutcome.kind \in {"network", "abort"}
             => Take(hfResult.val, 14) = "Network error:"
       /\ LastOutcome.kind = "status"
             => hfResult.val = "HF " \o StatusText(LastOutcome.status)
                                    \o ": model busy/starting"

C3_Witness ==
    /\ hfPc = "done" /\ tries = 3 /\ Len(outcomes) = 3
    /\ outcomes[1].kind = "network"
    /\ outcomes[2].kind = "status" /\ outcomes[2].status = 429
    /\ outcomes[3].kind = "status" /\ outcomes[3].status = 503
    /\ hfResult = Resolved("error", "HF 503: model busy/starting")

\* C4: if the first k attempts (0 <= k < tries) end in retryable failures and
\* attempt k+1 gets HTTP 200 with a well-formed result body, the call returns
\* Success after exactly k+1 POSTs with exactly k sleeps, one between each
\* pair of consecutive attempts; while fewer than `tries` attempts have all
\* failed retryably the call has not given up.
C4_RetryThenSuccess ==
    /\ (/\ HFReturned /\ Len(outcomes) > 0
        /\ AllRetryable(Len(outcomes) - 1)
        /\ LastOutcome = Outcome("status", 200, "wellformed"))
       => /\ hfPc = "done"
          /\ hfResult.tag = "text"
          /\ Len(outcomes) <= tries
          /\ posts = Len(outcomes)
          /\ Len(sleeps) = Len(outcomes) - 1
          /\ Alternating(events)
    /\ (hfPc # "idle" /\ AllRetryable(Len(outcomes)) /\ Len(outcomes) < tries)
       => hfPc \in {"fetch", "sleep"}

C4_Witness ==
    /\ hfPc = "done" /\ tries = 3
    /\ outcomes = <<Outcome("status", 503, "none"), Outcome("status", 503, "none"),
                    Outcome("status", 200, "wellformed")>>
    /\ hfResult.tag = "text"
    /\ events = <<"post", "sleep", "post", "sleep", "post">>

\* C6: every attempt ends within timeoutMs of its POST: while an attempt is
\* waiting for the provider (for the response or for the rest of its body),
\* no more than timeoutMs has passed since the POST.
C6_AttemptBounded ==
    hfPc \in {"fetch", "body"} => elapsed <= TimeoutTicks

\* The attempts so far that ended in a retryable failure: the fetch failed
\* or was aborted, or the status was 503 or 429.
Retryable(o) == o.kind \in {"network", "abort"} \/ (o.kind = "status" /\ o.status \in {503, 429})
RetryableFailures == Cardinality({k \in 1..Len(outcomes) : Retryable(outcomes[k])})

\* The sleeps that have ended.
SleepsDone == Len(sleeps) - (IF hfPc = "sleep" THEN 1 ELSE 0)

\* C23: within one callHF call the backoff sleeps are 800 ms, 1280 ms,
\* 2048 ms, ...: the first is 800 ms and each later one is 1.6 times the one
\* before, whichever retryable failure (network, 503, 429) caused it; the
\* delay grows only on retryable failures (once per sleep that has ended),
\* and a call makes at most tries - 1 sleeps.  Delays are in microseconds.
C23_BackoffSequence ==
    /\ Len(sleeps) > 0 => sleeps[1] = 800 * 1000
    /\ \A k \in 1..(Len(sleeps) - 1) : sleeps[k + 1] * 10 = sleeps[k] * 16
    /\ Len(sleeps) <= RetryableFailures
    /\ Len(sleeps) > 0 => Len(sleeps) <= tries - 1
    /\ hfPc # "idle"
         => /\ SleepsDone = 0 => delay = 800 * 1000
            /\ SleepsDone > 0 => delay * 10 = sleeps[SleepsDone] * 16

\* Two sleeps, the first after a network error, the second after a 503.
C23_Witness ==
    /\ sleeps = <<800 * 1000, 1280 * 1000>>
    /\ Len(outcomes) >= 2
    /\ outcomes[1].kind = "network"
    /\ outcomes[2].kind = "status" /\ outcomes[2].status = 503

(***************************************************************************)
(* Claims about heuristicTldr (checked under SpecTldr).                    *)
(***************************************************************************)
\* The whitespace-separated words of s.
WordsOf(s) == FilterSeq(SplitWs(s), LAMBDA w : w # "")

\* C7: for every non-empty input text heuristicTldr returns a non-empty
\* string that ends in exactly one period (the character before the final
\* period is not a period) and has at most 50 whitespace-separated words.
C7_OnePeriodAtMost50Words ==
    (fn.pc = "tldr_out" /\ fn.text # "")
    => /\ fn.out # ""
       /\ Ch(fn.out, Len(fn.out)) = "."
       /\ Len(fn.out) >= 2 => Ch(fn.out, Len(fn.out) - 1) # "."
       /\ Len(WordsOf(fn.out)) <= MaxWords

\* The candidate sentences of a text, and the cleaned text they are cut from.
CleanedOf(text) == Trim(CollapseWs(text))
Candidates(text) == Sentences(CleanedOf(text))

\* The candidates that hold a keyword of group g, in text order.
InGroup(g, c) == SelectSeq(c, LAMBDA s : KeywordTest(PriorityKeywords[g], s))

\* The sentence the groups select among the candidates c, by priority.
ByPriority(c, r, k, a, cleaned) ==
    IF r # <<>> THEN r[1]
    ELSE IF k # <<>> THEN k[1]
    ELSE IF a # <<>> THEN a[1]
    ELSE IF c # <<>> THEN c[1]
    ELSE Take(cleaned, FallbackChars)

Chosen(c, cleaned) ==
    ByPriority(c, InGroup(1, c), InGroup(2, c), InGroup(3, c), cleaned)

\* The takeaway made of a selected sentence: word cap, trailing punctuation
\* removed, one period appended.
TakeawayOf(best) == Trim(StripTail(CapWords(best))) \o "."

\* C17: heuristicTldr selects its sentence by group priority, not by
\* position: the first candidate sentence of the results/findings group if
\* there is one, even when a sentence of the conclusion/summary or the
\* aim/objective group comes earlier; otherwise the first of the
\* conclusion/summary group; otherwise the first of the aim/objective
\* group; otherwise the first candidate sentence; and with no candidate
\* sentence the first 150 characters of the cleaned text.
C17_GroupPriority ==
    (fn.pc = "tldr_out" /\ fn.text # "")
    => fn.out = TakeawayOf(Chosen(Candidates(fn.text), CleanedOf(fn.text)))

\* A results sentence is selected although a conclusion sentence precedes it.
C17_Witness ==
    /\ fn.pc = "tldr_out"
    /\ fn.text = "In conclusion it works" \o ". " \o "We found better yields"
    /\ fn.out = "We found better yields."

\* C22: for empty input heuristicTldr returns exactly "No short takeaway
\* available." and heuristicSummary exactly "No readable text available.";
\* for every non-empty input both return a non-empty string.
C22_SentinelOrNonEmpty ==
    /\ fn.pc = "tldr_out"
         => IF fn.text = "" THEN fn.out = "No short takeaway available." ELSE fn.out # ""
    /\ fn.pc = "summary_out"
         => IF fn.text = "" THEN fn.out = "No readable text available." ELSE fn.out # ""

\* A non-empty text without a sentence of more than 40 characters: the
\* summary is the period alone.
C22_Witness ==
    /\ fn.pc = "summary_out"
    /\ fn.text = "We found better yields" \o ". " \o "In conclusion it works"
    /\ fn.out = "."

\* The sentences of 20 or more characters.
AtLeast20(text) ==
    FilterSeq([k \in 1..Len(SplitSentences(CleanedOf(text))) |->
                  Trim(SplitSentences(CleanedOf(text))[k])], LongEnoughInclusive)

\* C25: heuristicTldr discards exactly the sentences shorter than 20
\* characters: a sentence of 20 or more characters (one of exactly 20
\* included) stays a candidate of the selection by keyword priority and of
\* the first-sentence fallback.
C25_TwentyCharsStay ==
    (fn.pc = "tldr_out" /\ fn.text # "")
    => fn.out = TakeawayOf(Chosen(AtLeast20(fn.text), CleanedOf(fn.text)))

(***************************************************************************)
(* Claims about methods mode (checked under SpecMethods).                  *)
(***************************************************************************)
\* The text contains a term of the regular expression.
Contains(re, text) == Matches(re, Runs(ToLower(Trim(text)))) # {}

\* C8: the Research Approach is "Mixed Methods" if the text has an explicit
\* mixed-method(s) term or both a quantitative and a qualitative term;
\* otherwise "Quantitative" if it has at least one quantitative term (also
\* with exactly one occurrence); otherwise "Qualitative" if it has at least
\* one qualitative term; otherwise there is no Research Approach line.
C8_ApproachDecision ==
    fn.pc = "methods_out"
    => fn.out =
         (IF \/ Contains(MixedRe, fn.text)
             \/ Contains(QuantitativeRe, fn.text) /\ Contains(QualitativeRe, fn.text)
          THEN "* Research Approach: Mixed Methods"
          ELSE IF Contains(QuantitativeRe, fn.text)
          THEN "* Research Approach: Quantitative"
          ELSE IF Contains(QualitativeRe, fn.text)
          THEN "* Research Approach: Qualitative"
          ELSE "")

\* Some alternative of the regular expression matches somewhere in the text.
HasTerm(lower, re, bounded) ==
    \E i \in 1..Len(lower), k \in 1..Len(re) : AltAt(lower, i, re[k], bounded)

\* The categories of the checklist, by label.
Labels ==
    { "* Research Approach: ", "* Research Design: ", "* Research Environment: ",
      "* Participants/Sample: ", "* Instruments/Tools: ", "* Software/Platform Used: ",
      "* Data Analysis: ", "* Primary Outcomes: " }

\* The category of the label has at least one match in the text.
Matched(label, text, lower) ==
    CASE label = "* Research Approach: " ->
           Contains(MixedRe, text) \/ Contains(QuantitativeRe, text)
           \/ Contains(QualitativeRe, text)
      [] label = "* Research Design: " -> HasTerm(lower, DesignRe, FALSE)
      [] label = "* Research Environment: " -> HasTerm(lower, EnvironmentRe, FALSE)
      [] label = "* Participants/Sample: " ->
           \E i \in 1..Len(lower) : NEqualsAt(lower, i) > 0 \/ SampleCountAt(lower, i) > 0
      [] label = "* Instruments/Tools: " -> HasTerm(lower, InstrumentsRe, FALSE)
      [] label = "* Software/Platform Used: " -> HasTerm(lower, SoftwareRe, FALSE)
      [] label = "* Data Analysis: " -> HasTerm(lower, AnalysisRe, FALSE)
      [] label = "* Primary Outcomes: " -> HasTerm(lower, OutcomesRe, TRUE)

\* What a line lists after its label: the comma-separated terms (the
\* outcomes line wraps them in "Identify variables like ... .").
TermsText(line, label) ==
    IF label = "* Primary Outcomes: " /\ StartsWith(line, label \o "Identify variables like ")
    THEN SubSeq(line, Len(label \o "Identify variables like ") + 1, Len(line) - 1)
    ELSE SubSeq(line, Len(label) + 1, Len(line))

ListsTerms(line, label) ==
    \A k \in 1..Len(SplitComma(TermsText(line, label))) :
        Trim(SplitComma(TermsText(line, label))[k]) # ""

LabelOf(line) == CHOOSE label \in Labels : StartsWith(line, label)

\* C16: every bullet line of the methods checklist belongs to a category
\* with at least one match in the text and lists at least one non-empty term
\* after its label; a category with no match gives no line at all.
C16_NoEmptyBullet ==
    fn.pc = "methods_out"
    => /\ Len(fn.lines) >= 1 /\ fn.lines[1] = "Methods Checklist"
       /\ \A k \in 2..Len(fn.lines) :
              /\ \E label \in Labels : StartsWith(fn.lines[k], label)
              /\ Matched(LabelOf(fn.lines[k]), fn.text, ToLower(Trim(fn.text)))
              /\ ListsTerms(fn.lines[k], LabelOf(fn.lines[k]))
       /\ \A label \in Labels :
              ~Matched(label, fn.text, ToLower(Trim(fn.text)))
              => \A k \in 1..Len(fn.lines) : ~StartsWith(fn.lines[k], label)

C16_Witness ==
    /\ fn.pc = "methods_out"
    /\ fn.text = "surveys n = 30 station "
    /\ fn.lines = <<"Methods Checklist", "* Research Design: Survey",
                    "* Participants/Sample: n = 30", "* Software/Platform Used: IoT">>

(***************************************************************************)
(* Claims about the citation formatter (checked under SpecCite).           *)
(***************************************************************************)
\* C9: for every author string the BibTeX author field equals the APA-form
\* entries of the same string joined with " and ", also for authors that
\* have only a last name and for the empty author string.
C9_BibtexJoinsAPA ==
    fn.pc = "cite_out" => fn.out.bibtexAuthor = Join(fn.out.apaList, " and ")

\* The claim's reading of one author: "Last, First Middle" when it holds one
\* comma, else "First [Middle...] Last", else the single word as last name.
HasCh(s, c) == \E i \in 1..Len(s) : Ch(s, i) = c
CountCh(s, c) == Cardinality({i \in 1..Len(s) : Ch(s, i) = c})
HasAnd(s) == \E i \in 1..Len(s) : IsAndAt(s, i)

ClaimedEntry(author) ==
    IF HasCh(author, ",")
    THEN LET sp == SplitComma(author)
             given == WordsIn(sp[2])
         IN  StripTrailingComma(
                 Cap(Trim(sp[1])) \o ", "
                 \o Join([k \in 1..Len(given) |-> Initial(given[k])], " "))
    ELSE LET w == WordsIn(author)
         IN  IF Len(w) >= 2
             THEN Cap(w[Len(w)]) \o ", "
                  \o Join([k \in 1..(Len(w) - 1) |-> Initial(w[k])], " ")
             ELSE Cap(w[1])

\* One author: no ";", "&" or "and", at most one comma, and a name on each
\* side of the comma.
OneAuthor(s) ==
    /\ ~HasCh(s, ";") /\ ~HasCh(s, "&") /\ ~HasAnd(s)
    /\ CountCh(s, ",") <= 1
    /\ Len(WordsIn(SplitComma(s)[1])) > 0
    /\ HasCh(s, ",") => Len(WordsIn(SplitComma(s)[2])) > 0

\* C10: an author given as "Last, First Middle" becomes the single entry
\* "Last, F. M." (last name: the part before the comma); an author without
\* a comma and with two or more words is read as "First [Middle...] Last";
\* a single word is the last name.
C10_OneAuthorForms ==
    (fn.pc = "cite_out" /\ OneAuthor(fn.text))
    => fn.out.apaList = <<ClaimedEntry(fn.text)>>

\* The author string holds no name: every character is whitespace, one of
\* the separators "," ";" "&", or part of an "and".
NoName(s) ==
    \A i \in 1..Len(s) :
        \/ IsWs(Ch(s, i)) \/ Ch(s, i) \in {",", ";", "&"}
        \/ IsAndAt(s, i) \/ IsAndAt(s, i - 1) \/ IsAndAt(s, i - 2)

\* C11: for every author string parseAuthorsToAPAList returns a non-empty
\* list, the part before the first comma of every entry (the last name) is
\* non-empty, and a string that holds no name yields exactly <<"Author">>.
C11_LastNameNonEmpty ==
    fn.pc = "cite_out"
    => /\ Len(fn.out.apaList) >= 1
       /\ \A k \in 1..Len(fn.out.apaList) : Trim(SplitComma(fn.out.apaList[k])[1]) # ""
       /\ NoName(fn.text) => fn.out.apaList = <<"Author">>

C11_Witness ==
    /\ fn.pc = "cite_out" /\ fn.text = " & ;" /\ fn.out.apaList = <<"Author">>

(***************************************************************************)
(* Claims about recommendations mode (checked under SpecRecs).             *)
(***************************************************************************)
\* The numbered items a text lists, each with its continuation lines merged
\* into it, read off the lines of the document itself.
ListedItems(text) ==
    OneLineAll(ItemsFrom(text, 1, "numbered", {"numbered", "lettered", "caps"}))

\* The text is a numbered list and nothing else: it starts with an item,
\* and its items are distinct, 25 to 400 characters long and carry
\* recommendation language.
NumberedListOnly(text) ==
    /\ ItemStart(text, 1, "numbered") > 0
    /\ \A k \in 1..Len(ListedItems(text)) :
          /\ Len(ListedItems(text)[k]) >= 25
          /\ Strategy1Keeps(ListedItems(text)[k])
          /\ \A j \in 1..(k - 1) : ListedItems(text)[j] # ListedItems(text)[k]

\* C12: for a text that lists numbered items, each starting on its own line,
\* every item that is 20 to 400 characters long and contains recommendation
\* language becomes its own candidate with its continuation lines merged
\* into it: k such distinct items give k entries in the final list.
C12_NumberedItemsKept ==
    (fn.pc = "recs_out" /\ NumberedListOnly(Trim(fn.text)))
    => /\ Len(fn.out.final) = Len(ListedItems(Trim(fn.text)))
       /\ \A k \in 1..Len(fn.out.final) :
              fn.out.final[k] = FormatRec(ListedItems(Trim(fn.text))[k])

\* The dedup key of an entry or candidate.
KeyOf(rec) == RecKey(ToLower(Trim(rec)))

\* The candidates that pass the length, exclusion and validity tests.
Passes(rec) ==
    Len(Trim(rec)) >= 25 /\ ~Excluded(Trim(rec)) /\ IsValidRec(ToLower(Trim(rec)))

\* Candidate j is the first passing candidate with its key.
FirstWithKey(candidates, j) ==
    /\ Passes(candidates[j])
    /\ \A i \in 1..(j - 1) : Passes(candidates[i]) => KeyOf(candidates[i]) # KeyOf(candidates[j])

\* C13: the final recommendation list never holds two entries with the same
\* dedup key (lower-cased, punctuation removed, whitespace collapsed, first
\* 60 characters); of the candidates that share a key, two that differ only
\* in trailing punctuation among them, the first in candidate order is the
\* one kept.
C13_OneEntryPerKey ==
    fn.pc = "recs_out"
    => /\ \A i, j \in 1..Len(fn.out.final) :
              i < j => KeyOf(fn.out.final[i]) # KeyOf(fn.out.final[j])
       /\ \A k \in 1..Len(fn.out.final) :
              \E j \in 1..Len(fn.out.candidates) :
                  /\ FirstWithKey(fn.out.candidates, j)
                  /\ fn.out.final[k] = FormatRec(Trim(fn.out.candidates[j]))
       /\ \A j \in 1..Len(fn.out.candidates) :
              (FirstWithKey(fn.out.candidates, j) /\ Len(fn.out.final) < 12)
              => \E k \in 1..Len(fn.out.final) :
                     fn.out.final[k] = FormatRec(Trim(fn.out.candidates[j]))

C13_Witness ==
    /\ fn.pc = "recs_out"
    /\ fn.out.candidates = <<"The study should be performed over a full season.",
                             "The study should be performed over a full season!">>
    /\ fn.out.final = <<"The study should be performed over a full season.">>

(***************************************************************************)
(* Claims about the reference scanner (checked under SpecRefs).            *)
(***************************************************************************)
\* The text the scanner was given.
ScannedText ==
    IF fn.pdf /\ fn.text # "" THEN fn.text
    ELSE IF fn.given.t = "str" THEN fn.given.s ELSE ""

HasHeader(text) == Includes(ToLower(text), "references") \/ Includes(ToLower(text), "bibliography")

\* The non-empty lines, trimmed, of the tail scanned after the first header.
LinesAfterHeader(text) ==
    TailLines(ScannedTail(text, TailStart(text, ToLower(text),
                  Least({i \in 1..Len(text) : HeaderAt(ToLower(text), i)}))))

ScannedLines == LinesAfterHeader(StripCR(ScannedText))

\* The openings of a new entry: "[n]", "n." and whitespace, the APA-like
\* opening, and a bullet or dash, which the marked reading wants followed by
\* whitespace.
DigitsEnd(ln, from) == SkipWhile(ln, from, DigitSet)

OpensEntry(ln, marked) ==
    \/ Take(ln, 1) = "[" /\ DigitsEnd(ln, 2) > 2 /\ SubSeq(ln, DigitsEnd(ln, 2), DigitsEnd(ln, 2)) = "]"
    \/ DigitsEnd(ln, 1) > 1 /\ DigitsEnd(ln, 1) < Len(ln)
       /\ SubSeq(ln, DigitsEnd(ln, 1), DigitsEnd(ln, 1) + 1) \in {". ", ".\t"}
    \/ Take(ln, 1) \in {"*", "-"} /\ (marked => Take(ln, 2) \in {"* ", "- ", "*\t", "-\t"})
    \/ Take(ln, 1) \in UpperSet
       /\ \E k \in 3..(Len(ln) - 5) :
              /\ Ch(ln, k) = "(" /\ Ch(ln, k + 5) = ")"
              /\ DigitsEnd(ln, k + 1) >= k + 5

\* The lines that open an entry: the first one, and every later opening.
Openers(lines, marked) == {1} \cup {k \in 2..Len(lines) : OpensEntry(lines[k], marked)}

NthOpener(lines, marked, j) ==
    CHOOSE k \in Openers(lines, marked) :
        Cardinality({i \in Openers(lines, marked) : i <= k}) = j

LastLineOf(lines, marked, k) ==
    Least({i - 1 : i \in {o \in Openers(lines, marked) : o > k} \cup {Len(lines) + 1}})

\* The entries rebuilt from the lines: every line once, in order, a line that
\* opens no entry joined to the entry before it with one space.
Rebuilt(lines, marked) ==
    IF lines = <<>> THEN <<>>
    ELSE [j \in 1..Cardinality(Openers(lines, marked)) |->
             JoinRange(lines, " ", NthOpener(lines, marked, j),
                       LastLineOf(lines, marked, NthOpener(lines, marked, j)))]

\* C14 as stated: after the first header the first non-empty line opens an
\* entry, a later line opens a new entry exactly when it starts with "[n]",
\* "n. ", a bullet, a dash or the APA-like opening, every other line is
\* appended with one space, and the entries hold every non-empty line of the
\* scanned tail exactly once, in order.
C14_EntriesRebuildLines ==
    (fn.pc = "refs_out" /\ HasHeader(ScannedText))
    => fn.out.items = Rebuilt(ScannedLines, FALSE)

\* C14 amended: a bullet or a dash opens a new entry only when whitespace
\* follows it, and every run of two or more whitespace characters inside an
\* entry is replaced by one space; otherwise as stated.
C14_EntriesRebuildCollapsed ==
    (fn.pc = "refs_out" /\ HasHeader(ScannedText))
    => fn.out.items = CollapseEach(Rebuilt(ScannedLines, TRUE))

C14_Witness ==
    /\ fn.pc = "refs_out"
    /\ fn.text = "References\n[1] Doe\n wrapped \r\n\n2. Roe  K."
    /\ fn.out.items = <<"[1] Doe wrapped", "2. Roe K.">>

\* C15: when the text given to the scanner holds no "references" or
\* "bibliography" header, case ignored (an empty, null or missing text
\* included), the scanner returns the empty list and refscan mode answers ok
\* with count 0, never an error.
C15_NoHeaderNoEntries ==
    (fn.pc = "refs_out" /\ ~HasHeader(ScannedText))
    => fn.out = [status |-> 200, ok |-> TRUE, count |-> 0, items |-> <<>>]

C15_Witness ==
    /\ fn.pc = "refs_out" /\ fn.pdf
    /\ fn.text = "Intro text.\n- Lee\n2. Roe  K."
    /\ fn.out.ok /\ fn.out.count = 0

(***************************************************************************)
(* Claims about the request handlers (checked under SpecReq).              *)
(***************************************************************************)
SomeCallFailed == \E k \in 1..Len(req.calls) : req.calls[k].tag = "error"

\* C5: whenever a callHF call made while serving a request returned Failure,
\* the request is still answered successfully with a best-effort text: the
\* tldr routes answer with heuristicTldr of the source, /summary goes on to
\* its remaining model calls and to heuristicSummary, recommendations mode
\* answers with its normal text; no error response.
C5_FailureIsDowngraded ==
    (req.pc = "responded" /\ SomeCallFailed)
    => /\ req.resp.status = 200
       /\ req.resp.text # ""
       /\ req.route = "tools_tldr"
            => req.resp.text = ToolsTldrText(HeuristicTldr(TldrBase(req.source)))
       /\ req.route = "tldr"
            => req.resp.text = TldrRouteText(HeuristicTldr(TldrBase(req.source)))
       /\ (req.route = "summary" /\ \A k \in 1..Len(req.calls) : req.calls[k].tag = "error")
            => req.resp.via = "heuristic"
       /\ req.route = "tools_recs" => req.resp = RecsResponse(<<>>)

\* A request of tldr mode answered while no provider token is configured.
TldrNoToken == req.pc = "responded" /\ req.route = "tools_tldr" /\ ~req.token

SampleAbstract ==
    "This study found that X improved performance by 20%. Researchers recommend further testing."

\* The answer of tldr mode that the heuristic takeaway of the source gives.
HeuristicAnswer(source) == "**Short Takeaway:** " \o HeuristicTldr(Trim(source))

\* C18 as stated: in tldr mode with no provider token configured no call to
\* the Inference Provider is made and the response text is
\* "**Short Takeaway:** " followed by the heuristic takeaway of the source;
\* for the sample abstract the text contains "found that X improved
\* performance".
C18_NoTokenHeuristic ==
    TldrNoToken
    => /\ req.calls = <<>>
       /\ req.resp.text = HeuristicAnswer(req.source)
       /\ req.source = SampleAbstract
            => Includes(req.resp.text, "found that X improved performance")

\* C18 amended: as stated, for a source that is not empty once trimmed; an
\* empty source is answered "No content available for summary.".
C18_NoTokenHeuristicOfContent ==
    TldrNoToken
    => /\ req.calls = <<>>
       /\ Trim(req.source) # "" => req.resp.text = HeuristicAnswer(req.source)
       /\ Trim(req.source) = ""
            => req.resp.text = "**Short Takeaway:** No content available for summary."
       /\ req.source = SampleAbstract
            => Includes(req.resp.text, "found that X improved performance")

C18_Witness ==
    /\ TldrNoToken
    /\ req.source = SampleAbstract
    /\ req.calls = <<>>
    /\ req.resp.text = "**Short Takeaway:** This study found that X improved performance by 20%."

\* C19: a summary request that carries readable text is answered with a
\* best-effort textual summary on every failure path, also when no provider
\* token is configured: then the heuristic summary is returned, not an error
\* response.
C19_SummaryAlwaysAnswered ==
    (req.pc = "responded" /\ req.route = "summary" /\ Trim(req.source) # "")
    => /\ req.resp.status = 200
       /\ req.resp.text # ""
       /\ ~req.token => req.resp.via = "heuristic"

(***************************************************************************)
(* Claims about requests handled at once (checked under SpecTools).        *)
(***************************************************************************)
\* The handler of a request served alone, given the callHF results in order.
RECURSIVE Replay(_, _, _)
Replay(r, calls, k) ==
    IF k > Len(calls) \/ r.pc \notin Awaiting THEN r
    ELSE Replay(HandlerResume(r, calls[k]), calls, k + 1)

Alone(sent, calls) ==
    Replay(ToolsStart(ToolsRequest(sent.route, sent.token, sent.source)), calls, 1)

CallsMade(r) == Len(r.calls) + (IF r.pc \in Awaiting THEN 1 ELSE 0)

\* C24: in recommendations mode the Inference Provider is called (one callHF
\* call) at most once per request and only when the local strategies have
\* produced no candidate at all; if they produced a candidate no call is
\* made, and the provider's output is used only when the candidate list is
\* still empty.
C24_ProviderOnlyWhenEmpty ==
    (req.pc # "idle" /\ req.route = "tools_recs")
    => /\ CallsMade(req) <= 1
       /\ CallsMade(req) = 1 => req.local = <<>>
       /\ req.local # <<>> => CallsMade(req) = 0
       /\ (req.pc = "responded" /\ req.local # <<>> /\ Trim(req.source) # "")
          => req.resp = RecsResponse(req.local)

\* No local candidate: the model is asked once and its lines are the answer.
C24_Witness ==
    /\ req.pc = "responded" /\ req.route = "tools_recs"
    /\ req.local = <<>> /\ Len(req.calls) = 1
    /\ req.calls[1].tag = "text" /\ AiLines(req.calls[1].val) # <<>>
    /\ req.resp = RecsResponse(AiLines(req.calls[1].val))
    /\ req.resp # RecsResponse(<<>>)

(***************************************************************************)
(* Claims about citations mode (checked under SpecCitations).              *)
(***************************************************************************)
SameInputs(a, b) ==
    a.author = b.author /\ a.title = b.title /\ a.year = b.year /\ a.pdfText = b.pdfText

Null == "null"
NullDate == <<>>
DateOf(t) == <<t>>
getTime(d) == d[1]

AccountEmail == "juan@g.msuiit.edu.ph"

\* User.js lines 29, 40-45: the fields of the stored user the routes read
\* and write (lastVerifiedAt is written with verified and never read).
NoUser ==
    [exists |-> FALSE, pinHash |-> Null, verified |-> FALSE, verificationCode |-> Null,
     resetCode |-> Null, resetCodeExpires |-> NullDate]

\* Lines 106-114 with the defaults of User.js lines 40-45.
NewUser(pinHash) == [NoUser EXCEPT !.exists = TRUE, !.pinHash = pinHash]

\* bcrypt.hash and bcrypt.compare: the hash is not the PIN, and compare
\* accepts exactly the PIN that was hashed.
Hash(pin) == "$2b$10$" \o pin
Compare(pin, pinHash) == pinHash = Hash(pin)

\* /^\d{6}$/.test(s)
SixDigits(s) == Len(s) = 6 /\ \A i \in 1..Len(s) : Ch(s, i) \in DigitSet

\* String(req.body.email || '').toLowerCase().trim()
NormEmail(e) == Trim(ToLower(e))

\* Lines 21-34: the token signed for a user.
signAuthToken(email) == "jwt." \o email

\* The codes Math.floor(100000 + Math.random() * 900000).toString() draws.
Codes == {"111111", "222222"}

\* Line 211: 15 * 60 * 1000 ms.
ResetCodeMinutes == 15

ClockStep == 5
MaxNow == 20

AcctRoutes ==
    {"/register", "/login", "/send-pin-reset-code", "/validate-reset-code",
     "/reset-pin", "/verify-code", "/resend-code"}

AcctEmails == {"", " Juan@G.MSUIIT.edu.ph "}
AcctPins == {"123456", "654321", "12ab"}

\* The bodies sent to a route: email, code, and the PIN (newPin of /reset-pin).
AcctBodies(route) ==
    CASE route \in {"/register", "/login"} ->
           {[email |-> e, code |-> "", pin |-> p] : e \in AcctEmails, p \in AcctPins}
      [] route \in {"/send-pin-reset-code", "/resend-code"} ->
           {[email |-> e, code |-> "", pin |-> ""] : e \in AcctEmails}
      [] route \in {"/validate-reset-code", "/verify-code"} ->
           {[email |-> e, code |-> c, pin |-> ""] : e \in AcctEmails, c \in Codes \cup {"12ab"}}
      [] OTHER ->
           {[email |-> e, code |-> c, pin |-> p] : e \in AcctEmails, c \in Codes,
                                                    p \in {"654321", "12ab"}}

NoAcctResp == [status |-> 0, error |-> "", token |-> ""]
AcctError(status, error) == [status |-> status, error |-> error, token |-> ""]
AcctOk(status, token) == [status |-> status, error |-> "", token |-> token]

NoSet == [none |-> Null]

\* A request being served: where its handler stands, what it was sent, the
\* fields it has set on the document and not yet written, whether it has
\* written, its answer.
AcctRequest(pc, route, body) ==
    [pc |-> pc, route |-> route, email |-> NormEmail(body.email), code |-> Trim(body.code),
     pin |-> Trim(body.pin), set |-> NoSet, wrote |-> FALSE,
     resp |-> NoAcctResp]

NoAcctRequest == AcctRequest("idle", "", [email |-> "", code |-> "", pin |-> ""])

AcctRespond(r, resp) == [r EXCEPT !.pc = "responded", !.resp = resp]

\* user.x = v; ... await user.save()
AcctSet(r, set) == [r EXCEPT !.pc = "save", !.set = set]

\* The synchronous start of a handler, up to findOne.
AcctStart(r) ==
    CASE r.route = "/register" ->
           \* lines 94-99
           IF r.email = "" \/ r.pin = "" THEN AcctRespond(r, AcctError(400, "All fields required"))
           ELSE IF ~SixDigits(r.pin) THEN AcctRespond(r, AcctError(400, "PIN must be 6 digits"))
           ELSE r
      [] r.route = "/login" ->
           \* lines 136-141
           IF r.email = "" \/ r.pin = ""
           THEN AcctRespond(r, AcctError(400, "Email and 6-digit PIN are required"))
           ELSE IF ~SixDigits(r.pin) THEN AcctRespond(r, AcctError(400, "PIN must be 6 digits"))
           ELSE r
      [] r.route \in {"/send-pin-reset-code", "/resend-code"} ->
           \* lines 200, 360
           IF r.email = "" THEN AcctRespond(r, AcctError(400, "Email required")) ELSE r
      [] r.route \in {"/validate-reset-code", "/verify-code"} ->
           \* lines 237-239, 316-318
           IF r.email = "" \/ ~SixDigits(r.code)
           THEN AcctRespond(r, AcctError(400, "Valid email and 6-digit code are required"))
           ELSE r
      [] OTHER ->
           \* lines 267-271
           IF r.email = "" \/ ~SixDigits(r.code) \/ ~SixDigits(r.pin)
           THEN AcctRespond(r, AcctError(400,
                    "Valid email, 6-digit code and 6-digit new PIN are required"))
           ELSE r

\* User.findOne({ email })
findOne(db, email) == IF db.exists /\ email = AccountEmail THEN db ELSE NoUser

\* A variant for which a code never expires.
NeverExpired(user, now) == user.resetCodeExpires = NullDate

\* Lines 247, 281: !user.resetCodeExpires || user.resetCodeExpires.getTime() < Date.now()
Expired(user, now) ==
    user.resetCodeExpires = NullDate \/ getTime(user.resetCodeExpires) < now

\* Lines 244, 278: !user.resetCode || user.resetCode !== code
WrongResetCode(user, code) == user.resetCode = Null \/ user.resetCode # code

\* Lines 101-114
RegisterFound(r, user) ==
    IF user.exists THEN AcctRespond(r, AcctError(409, "Email already registered"))
    ELSE AcctSet(r, NewUser(Hash(r.pin)))

\* Lines 147-187
LoginFound(r, user, code) ==
    IF ~user.exists THEN AcctRespond(r, AcctError(404, "User not found"))
    ELSE IF user.pinHash = Null
    THEN AcctRespond(r, AcctError(409, "Account has no PIN set. Please reset your PIN."))
    ELSE IF ~Compare(r.pin, user.pinHash) THEN AcctRespond(r, AcctError(401, "Invalid PIN"))
    ELSE IF ~user.verified THEN AcctSet(r, [verificationCode |-> code])
    ELSE AcctRespond(r, AcctOk(200, signAuthToken(r.email)))

\* Lines 205-212
SendPinResetCodeFound(r, user, now, code) ==
    IF ~user.exists THEN AcctRespond(r, AcctError(404, "No account with this email"))
    ELSE AcctSet(r, [resetCode |-> code, resetCodeExpires |-> DateOf(now + ResetCodeMinutes)])

\* Lines 242-251
ValidateResetCodeFound(r, user, now) ==
    IF ~user.exists THEN AcctRespond(r, AcctError(404, "User not found"))
    ELSE IF WrongResetCode(user, r.code) THEN AcctRespond(r, AcctError(400, "Invalid code"))
    ELSE IF Expired(user, now) THEN AcctRespond(r, AcctError(400, "Code expired"))
    ELSE AcctRespond(r, AcctOk(200, ""))

\* Lines 276-288
ResetPinFound(r, user, now) ==
    IF ~user.exists THEN AcctRespond(r, AcctError(404, "User not found"))
    ELSE IF WrongResetCode(user, r.code)
    THEN AcctRespond(r, AcctError(400, "Invalid reset code"))
    ELSE IF Expired(user, now) THEN AcctRespond(r, AcctError(400, "Reset code expired"))
    ELSE AcctSet(r, [pinHash |-> Hash(r.pin), resetCode |-> Null,
                     resetCodeExpires |-> NullDate])

\* Lines 323-334
VerifyCodeFound(r, user) ==
    IF ~user.exists THEN AcctRespond(r, AcctError(404, "User not found"))
    ELSE IF user.verified THEN AcctRespond(r, AcctError(409, "Account already verified"))
    ELSE IF user.verificationCode = Null
    THEN AcctRespond(r, AcctError(409, "No active verification code. Please request a new one."))
    ELSE IF user.verificationCode # r.code
    THEN AcctRespond(r, AcctError(400, "Invalid verification code"))
    ELSE AcctSet(r, [verified |-> TRUE, verificationCode |-> Null])

\* Lines 363-367
ResendCodeFound(r, user, code) ==
    IF ~user.exists THEN AcctRespond(r, AcctError(404, "User not found"))
    ELSE IF user.verified THEN AcctRespond(r, AcctError(409, "Account already verified"))
    ELSE AcctSet(r, [verificationCode |-> code])

\* findOne has resolved with user: the handler runs on to its write or to
\* its answer; now is Date.now() and code the code Math.random() gives.
AcctFound(r, user, now, code) ==
    CASE r.route = "/register" -> RegisterFound(r, user)
      [] r.route = "/login" -> LoginFound(r, user, code)
      [] r.route = "/send-pin-reset-code" -> SendPinResetCodeFound(r, user, now, code)
      [] r.route = "/validate-reset-code" -> ValidateResetCodeFound(r, user, now)
      [] r.route = "/reset-pin" -> ResetPinFound(r, user, now)
      [] r.route = "/verify-code" -> VerifyCodeFound(r, user)
      [] OTHER -> ResendCodeFound(r, user, code)

\* save() of a loaded document and updateOne write the fields that were
\* set and no other.
Written(db, set) == [f \in DOMAIN db |-> IF f \in DOMAIN set THEN set[f] ELSE db[f]]

\* The unique index on email (User.js line 12) rejects a second insert.
SaveThrows(r, db) == r.route = "/register" /\ db.exists

\* The write has resolved: the handler runs on to the email or to its answer.
AcctSaved(r0) ==
    LET r == [r0 EXCEPT !.wrote = TRUE, !.set = NoSet]
    IN  CASE r.route = "/register" -> AcctRespond(r, AcctOk(201, ""))   \* lines 116-119
          [] r.route \in {"/reset-pin", "/verify-code"} ->
               \* lines 290-301, 336-347
               AcctRespond(r, AcctOk(200, signAuthToken(r.email)))
          [] OTHER -> [r EXCEPT !.pc = "mail"]

\* sendSystemEmail has resolved (sent) or rejected.
AcctMailed(r, sent) ==
    IF r.route = "/login" THEN AcctRespond(r, AcctOk(200, ""))         \* lines 163-173
    ELSE IF sent THEN AcctRespond(r, AcctOk(200, ""))                  \* lines 222, 375
    ELSE AcctRespond(r, AcctError(500, "Server error"))                 \* lines 223-226, 376-379

\* The tokens issued so far, each with the route that issued it and the
\* stored verified flag at that moment.
Issued(f, r, db) ==
    IF r.pc = "responded" /\ r.resp.token # ""
    THEN f.tokens \cup {[route |-> r.route, verified |-> db.verified]}
    ELSE f.tokens

\* A request arrives while fewer than `limit` others are being served.
AcctArrive(i, route, body) ==
    /\ fn.pc = "acct"
    /\ i <= fn.limit
    /\ fn.slots[i].pc \in {"idle", "responded"}
    /\ fn' = [fn EXCEPT !.slots[i] = AcctStart(AcctRequest("find", route, body))]
    /\ UNCHANGED <<hfPc, tries, attempt, delay, posts, sleeps, timerArmed,
                   elapsed, outcomes, events, hfResult, req>>

\* findOne resolves for request i.
AcctFind(i, code) ==
    /\ fn.pc = "acct"
    /\ fn.slots[i].pc = "find"
    /\ LET r == AcctFound(fn.slots[i], findOne(fn.db, fn.slots[i].email), fn.now, code)
       IN  fn' = [fn EXCEPT !.slots[i] = r, !.tokens = Issued(fn, r, fn.db)]
    /\ UNCHANGED <<hfPc, tries, attempt, delay, posts, sleeps, timerArmed,
                   elapsed, outcomes, events, hfResult, req>>

\* Successful /reset-pin writes since the last reset code was written.
Uses(f, r) ==
    CASE r.route = "/send-pin-reset-code" -> 0
      [] r.route = "/reset-pin" -> f.uses + 1
      [] OTHER -> f.uses

\* The write of request i resolves.
AcctSave(i) ==
    /\ fn.pc = "acct"
    /\ fn.slots[i].pc = "save"
    /\ IF SaveThrows(fn.slots[i], fn.db)
       THEN fn' = [fn EXCEPT !.slots[i] = AcctRespond(@, AcctError(500, "Server error"))]
       ELSE LET db == Written(fn.db, fn.slots[i].set)
                r == AcctSaved(fn.slots[i])
            IN  fn' = [fn EXCEPT !.db = db, !.slots[i] = r, !.tokens = Issued(fn, r, db),
                                 !.uses = Uses(fn, r)]
    /\ UNCHANGED <<hfPc, tries, attempt, delay, posts, sleeps, timerArmed,
                   elapsed, outcomes, events, hfResult, req>>

\* The email of request i is sent, or sending it fails.
AcctMail(i, sent) ==
    /\ fn.pc = "acct"
    /\ fn.slots[i].pc = "mail"
    /\ fn' = [fn EXCEPT !.slots[i] = AcctMailed(@, sent)]
    /\ UNCHANGED <<hfPc, tries, attempt, delay, posts, sleeps, timerArmed,
                   elapsed, outcomes, events, hfResult, req>>

\* Time passes.
AcctTick ==
    /\ fn.pc = "acct"
    /\ fn.now + ClockStep <= MaxNow
    /\ fn' = [fn EXCEPT !.now = @ + ClockStep]
    /\ UNCHANGED <<hfPc, tries, attempt, delay, posts, sleeps, timerArmed,
                   elapsed, outcomes, events, hfResult, req>>

AcctState(limit) ==
    [pc |-> "acct", limit |-> limit, now |-> 0, db |-> NoUser,
     slots |-> [i \in Slots |-> NoAcctRequest], tokens |-> {}, uses |-> 0]

InitAcct == HFIdle /\ ReqIdle /\ fn = AcctState(1)

\* Two requests at once on a registered account that is not verified yet.
RaceRoutes ==
    {"/login", "/resend-code", "/verify-code", "/send-pin-reset-code", "/reset-pin"}

RaceBodies(route) ==
    CASE route = "/login" -> {[email |-> AccountEmail, code |-> "", pin |-> "123456"]}
      [] route \in {"/resend-code", "/send-pin-reset-code"} ->
           {[email |-> AccountEmail, code |-> "", pin |-> ""]}
      [] route = "/verify-code" -> {[email |-> AccountEmail, code |-> c, pin |-> ""] : c \in Codes}
      [] OTHER -> {[email |-> AccountEmail, code |-> c, pin |-> "654321"] : c \in Codes}

InitAcctRace ==
    /\ HFIdle /\ ReqIdle
    /\ fn = [AcctState(2) EXCEPT !.db = NewUser(Hash("123456"))]

NextAcct ==
    \/ \E i \in Slots, route \in AcctRoutes : \E body \in AcctBodies(route) :
          AcctArrive(i, route, body)
    \/ \E i \in Slots, code \in Codes : AcctFind(i, code)
    \/ \E i \in Slots : AcctSave(i)
    \/ \E i \in Slots, sent \in BOOLEAN : AcctMail(i, sent)
    \/ AcctTick

SpecAcct == InitAcct /\ [][NextAcct]_vars

NextAcctRace ==
    \/ \E i \in Slots, route \in RaceRoutes : \E body \in RaceBodies(route) :
          AcctArrive(i, route, body)
    \/ \E i \in Slots, code \in Codes : AcctFind(i, code)
    \/ \E i \in Slots : AcctSave(i)
    \/ \E i \in Slots, sent \in BOOLEAN : AcctMail(i, sent)

SpecAcctRace == InitAcctRace /\ [][NextAcctRace]_vars

(***************************************************************************)
(* Claims about the account routes (checked under SpecAcct, and under      *)
(* SpecAcctRace where requests are served at once).                        *)
(***************************************************************************)
\* C26: a token has been issued only for accounts whose verified flag was
\* true at the moment of issue: an account that never completed
\* /verify-code never receives a token from any route.
C26_TokensOnlyForVerified ==
    fn.pc = "acct" => \A t \in fn.tokens : t.verified

\* C27: a PIN reset code is single-use: a code written by
\* /send-pin-reset-code leads to at most one successful /reset-pin, also
\* when two /reset-pin requests with the same code are served at once.
C27_ResetCodeSingleUse ==
    fn.pc = "acct" => fn.uses <= 1

ResetRoutes == {"/validate-reset-code", "/reset-pin"}

\* Request r, whose findOne has just resolved, was let through its checks.
ResetAccepted(r) ==
    \/ r.route = "/validate-reset-code" /\ r.pc = "responded" /\ r.resp.status = 200
    \/ r.route = "/reset-pin" /\ r.pc = "save"

ResetExpired(r) ==
    /\ r.pc = "responded" /\ r.resp.status = 400 /\ ~r.wrote
    /\ r.resp.error = (IF r.route = "/reset-pin" THEN "Reset code expired" ELSE "Code expired")

\* The checks of a /validate-reset-code or /reset-pin request are made on
\* the stored user.
ResetChecked(i) ==
    /\ fn.slots[i].pc = "find" /\ fn'.slots[i].pc # "find"
    /\ fn.slots[i].route \in ResetRoutes

\* C28: a PIN reset code is valid for at most 15 minutes after it was
\* issued: the stored expiry is never more than 15 minutes ahead; a
\* /validate-reset-code or /reset-pin request is let through only with the
\* stored code (the one issued last) and no later than its expiry; with the
\* stored code but later than that it is rejected as expired, and the stored
\* user is left as it was.
C28_ResetCodeExpires ==
    /\ [](fn.pc = "acct" /\ fn.db.resetCodeExpires # NullDate
          => getTime(fn.db.resetCodeExpires) <= fn.now + ResetCodeMinutes)
    /\ [][fn.pc = "acct" =>
          \A i \in Slots :
             ResetChecked(i) =>
               /\ ResetAccepted(fn'.slots[i])
                  => /\ fn.db.resetCode = fn.slots[i].code
                     /\ fn.db.resetCodeExpires # NullDate
                     /\ fn.now <= getTime(fn.db.resetCodeExpires)
               /\ ( /\ fn.db.exists /\ fn.db.resetCode = fn.slots[i].code
                    /\ fn.db.resetCodeExpires # NullDate
                    /\ fn.now > getTime(fn.db.resetCodeExpires) )
                  => ResetExpired(fn'.slots[i]) /\ fn'.db = fn.db]_vars

\* A /reset-pin request with the stored code, 20 minutes after it was
\* issued, is rejected as expired and the code is still stored.
C28_Witness ==
    /\ fn.pc = "acct"
    /\ fn.slots[1].route = "/reset-pin" /\ ResetExpired(fn.slots[1])
    /\ fn.db.resetCode = fn.slots[1].code
    /\ fn.db.resetCodeExpires = DateOf(ResetCodeMinutes)
    /\ fn.now = MaxNow
    /\ fn.db.pinHash = Hash("123456")

\* C29: an account request answered with an error status (4xx or 5xx) has
\* not written to the stored user.
C29_ErrorLeavesUserUnchanged ==
    fn.pc = "acct"
    => \A i \in Slots :
          (fn.slots[i].pc = "responded" /\ fn.slots[i].resp.status >= 400)
          => ~fn.slots[i].wrote

\* C30: a verified account has no stored verification code, for any
\* interleaving of /login, /resend-code and /verify-code requests.
C30_VerifiedHasNoCode ==
    fn.pc = "acct" => (fn.db.verified => fn.db.verificationCode = Null)

====
